---- MODULE Spec2Model ----
(***************************************************************************)
(* Extraction pipeline of the PropTech platform: the three copies of       *)
(* collectProperties (load-properties.js, load-properties-mcp.js and       *)
(* RealtyDataService), their field parsers and the record finalization.    *)
(* Texts are TLA+ strings; a character is a string of length one.          *)
(***************************************************************************)
EXTENDS Integers, Sequences, FiniteSets, TLC

(***************************************************************************)
(* Bounds of the model.                                                    *)
(***************************************************************************)
MaxKids == 2
MaxNodes == 2
MaxCount == 2

(***************************************************************************)
(* Characters and the string primitives of JavaScript the code uses.       *)
(***************************************************************************)
Ch(s, i) == SubSeq(s, i, i)

Tail2(s) == SubSeq(s, 2, Len(s))

From(s, i) == SubSeq(s, i, Len(s))

DigitChars == {"0", "1", "2", "3", "4", "5", "6", "7", "8", "9"}

UpperChars == "ABCDEFGHIJKLMNOPQRSTUVWXYZ"

LowerChars == "abcdefghijklmnopqrstuvwxyz"

IsDigit(c) == c \in DigitChars

\* \s of the regular expressions; the texts of the model use the blank only
IsSpace(c) == c = " "

UpperSet == {Ch(UpperChars, k) : k \in 1..26}

LowerSet == {Ch(LowerChars, k) : k \in 1..26}

LowerOf == [c \in UpperSet |-> Ch(LowerChars, CHOOSE k \in 1..26 : Ch(UpperChars, k) = c)]

IsUpper(c) == c \in UpperSet

IsLetter(c) == c \in UpperSet \/ c \in LowerSet

LowerCh(c) == IF c \in UpperSet THEN LowerOf[c] ELSE c

\* (the recursions over a text halve it, so that their depth stays small)
RECURSIVE toLowerCase(_)
toLowerCase(s) ==
  IF Len(s) = 0 THEN ""
  ELSE IF Len(s) = 1 THEN LowerCh(s)
  ELSE toLowerCase(SubSeq(s, 1, Len(s) \div 2))
         \o toLowerCase(SubSeq(s, Len(s) \div 2 + 1, Len(s)))

startsWith(s, p) == Len(s) >= Len(p) /\ SubSeq(s, 1, Len(p)) = p

\* s starts with p at position i
StartsAt(s, i, p) == i >= 1 /\ i + Len(p) - 1 <= Len(s) /\ SubSeq(s, i, i + Len(p) - 1) = p

includes(s, sub) == \E i \in 1..(Len(s) + 1) : StartsAt(s, i, sub)

RECURSIVE trimStart(_)
trimStart(s) == IF s # "" /\ IsSpace(Ch(s, 1)) THEN trimStart(Tail2(s)) ELSE s

RECURSIVE trimEnd(_)
trimEnd(s) ==
  IF s # "" /\ IsSpace(Ch(s, Len(s))) THEN trimEnd(SubSeq(s, 1, Len(s) - 1)) ELSE s

trim(s) == trimEnd(trimStart(s))

\* s.replace(/<class>/g, '') for a class of characters
RECURSIVE Remove(_, _)
Remove(s, class) ==
  IF Len(s) = 0 THEN ""
  ELSE IF Len(s) = 1 THEN (IF s \in class THEN "" ELSE s)
  ELSE Remove(SubSeq(s, 1, Len(s) \div 2), class)
         \o Remove(SubSeq(s, Len(s) \div 2 + 1, Len(s)), class)

\* one past the end of the longest run of characters of `class` starting at i
RunEnd(s, i, class) ==
  CHOOSE j \in i..(Len(s) + 1) :
    /\ j = Len(s) + 1 \/ Ch(s, j) \notin class
    /\ \A k \in i..(j - 1) : Ch(s, k) \in class

DigitVal(c) == CHOOSE k \in 0..9 : Ch("0123456789", k + 1) = c

\* Number has no overflow in JavaScript; the model saturates far above every threshold
\* the code compares with, so the comparisons come out the same
RECURSIVE DigitsValue(_, _)
DigitsValue(s, acc) ==
  IF s = "" \/ ~IsDigit(Ch(s, 1)) THEN acc
  ELSE DigitsValue(Tail2(s), IF acc >= 100000000 THEN 1000000000 ELSE 10 * acc + DigitVal(Ch(s, 1)))

\* NaN, the result of parseInt on a text that does not start with a digit
NaN == 0 - 1

\* parseInt(s): leading blanks skipped, then the longest prefix of digits
parseInt(s) ==
  LET t == trimStart(s)
  IN IF t = "" \/ ~IsDigit(Ch(t, 1)) THEN NaN ELSE DigitsValue(t, 0)

(***************************************************************************)
(* Regular expressions.  String.prototype.match returns the leftmost       *)
(* match; an operator XAt(s, i) gives one past the end of the match of X   *)
(* that starts at position i, or 0 when X does not match there.            *)
(***************************************************************************)
MinOf(S) == CHOOSE i \in S : \A j \in S : i <= j

MaxOf(S) == CHOOSE i \in S : \A j \in S : i >= j

CharAt(s, i) == IF i >= 1 /\ i <= Len(s) THEN Ch(s, i) ELSE ""

\* matches[0] of s.match(pattern) as text, "" when match returns null; ends[i] is
\* one past the end of the match of the pattern that starts at i, or 0
FirstMatch(s, ends) ==
  LET hits == {i \in DOMAIN ends : ends[i] > 0}
  IN IF hits = {} THEN "" ELSE SubSeq(s, MinOf(hits), ends[MinOf(hits)] - 1)

\* the first of three texts that is not empty, else `absent`
FirstText(t1, t2, t3, absent) ==
  IF t1 # "" THEN t1 ELSE IF t2 # "" THEN t2 ELSE IF t3 # "" THEN t3 ELSE absent

\* the character class [\d,]
DigitComma == DigitChars \cup {","}

SpaceChars == {" "}

\* /\$[\d,]+/g
PricePattern1At(s, i) ==
  IF CharAt(s, i) = "$" /\ CharAt(s, i + 1) \in DigitComma
  THEN RunEnd(s, i + 1, DigitComma) ELSE 0

\* /\$\s*[\d,]+/g
PricePattern2At(s, i) ==
  LET j == RunEnd(s, i + 1, SpaceChars)
  IN IF CharAt(s, i) = "$" /\ CharAt(s, j) \in DigitComma
     THEN RunEnd(s, j, DigitComma) ELSE 0

\* /[\d,]+\s*\$/g
PricePattern3At(s, i) ==
  LET k == RunEnd(s, RunEnd(s, i, DigitComma), SpaceChars)
  IN IF CharAt(s, i) \in DigitComma /\ CharAt(s, k) = "$" THEN k + 1 ELSE 0

\* where the n-th entry of pricePatterns matches
PriceEnds(s, n) ==
  [i \in 1..Len(s) |->
     CASE n = 1 -> PricePattern1At(s, i)
       [] n = 2 -> PricePattern2At(s, i)
       [] n = 3 -> PricePattern3At(s, i)]

\* matches[0] of the n-th entry of pricePatterns
PriceMatch(s, n) == FirstMatch(s, PriceEnds(s, n))

(***************************************************************************)
(* parsePrice.                                                             *)
(***************************************************************************)
\* JavaScript null (no text of a page contains "<")
Null == "<null>"

invalidPriceIndicators ==
  << "price available", "price not available", "call for price",
     "contact for price", "price upon request", "tbd", "n/a",
     "coming soon", "off market", "sold" >>

MinPrice == 10000

MaxPrice == 10000000

\* numericPrice of a matched text: parseInt(price.replace(/[\$,]/g, ''))
NumericPrice(price) == parseInt(Remove(price, {"$", ","}))

\* matches[0].replace(/\s/g, '')
PriceCandidate(s, n) == Remove(PriceMatch(s, n), SpaceChars)

\* the range test with a digit of the lower limit lost
PriceInRangeFrom1000(price) ==
  LET numericPrice == NumericPrice(price)
  IN numericPrice > 1000 /\ numericPrice < MaxPrice

PriceInRange(price) ==
  LET numericPrice == NumericPrice(price)
  IN numericPrice > MinPrice /\ numericPrice < MaxPrice

\* the candidate when it is in range, else ""
PriceIfInRange(price) == IF price # "" /\ PriceInRange(price) THEN price ELSE ""

\* the loop over pricePatterns: the first pattern whose first match is in range
PriceCascade(s, absent) ==
  FirstText(PriceIfInRange(PriceCandidate(s, 1)),
            PriceIfInRange(PriceCandidate(s, 2)),
            PriceIfInRange(PriceCandidate(s, 3)), absent)

HasInvalidPriceIndicator(text) ==
  \E k \in 1..Len(invalidPriceIndicators) :
    includes(toLowerCase(text), invalidPriceIndicators[k])

\* load-properties.js
parsePrice(text, fullText) ==
  IF HasInvalidPriceIndicator(text) THEN Null
  ELSE PriceCascade(text \o " " \o fullText, Null)

\* load-properties-mcp.js (the same function)
parsePriceMCP(text, fullText) ==
  IF HasInvalidPriceIndicator(text) THEN Null
  ELSE PriceCascade(text \o " " \o fullText, Null)

PriceNotAvailable == "Price not available"

\* RealtyDataService: no indicator check, a placeholder when nothing is in range
parsePriceLambda(text, fullText) ==
  PriceCascade(text \o " " \o fullText, PriceNotAvailable)

(***************************************************************************)
(* parseAddress.  The patterns carry flag i and look at letters only as a  *)
(* class, so they are matched on the lower-cased text `lw` and the capture *)
(* is cut from the text itself.  A pattern operator gives one past the end *)
(* of capture group 1 of the match starting at i (0: no match): greedy     *)
(* quantifiers give up characters from the right, so the match the regex   *)
(* engine finds first is the one whose variable part ends latest.          *)
(***************************************************************************)
LetterChars == UpperSet \cup LowerSet

\* the character class [A-Za-z\s]
LetterSpace == LetterChars \cup SpaceChars

\* (?:${cityName}) of the RegExp built from a template string
CityAt(lw, i, lowerCity) == StartsAt(lw, i, lowerCity)

\* (?:Parma|${cityName}) inside a regex literal: nothing is interpolated there, so
\* the second alternative is the end of input followed by the text {cityName}
CityAtLambda(lw, i, cityName) ==
  \/ StartsAt(lw, i, "parma")
  \/ (i = Len(lw) + 1 /\ StartsAt(lw, i, "{cityname}"))

\* (?:Street|St|Avenue|...|Way), lower-cased
streetSuffixes ==
  << "street", "st", "avenue", "ave", "road", "rd", "drive", "dr", "lane", "ln",
     "boulevard", "blvd", "circle", "cir", "court", "ct", "place", "pl", "way" >>

\* the positions e within the [A-Za-z\s]-run after the digits at which \s+(?:city) matches
CityEnds(lw, d, cityName, lambda) ==
  LET w == RunEnd(lw, d, LetterSpace)
      lc == toLowerCase(cityName)
  IN {e \in (d + 2)..w :
        /\ IsSpace(CharAt(lw, e))
        /\ IF lambda THEN CityAtLambda(lw, RunEnd(lw, e, SpaceChars), cityName)
           ELSE CityAt(lw, RunEnd(lw, e, SpaceChars), lc)}

\* (\d+\s+[A-Za-z\s]+(?:Street|St|...|Way))\s+(?:city): the suffix that starts
\* latest is tried first, and among the suffixes starting there the earliest listed
\* (a candidate is <<end of the capture, number of the suffix>>)
AddressPattern1At(lw, i, cityName, lambda) ==
  LET d == RunEnd(lw, i, DigitChars)
      ce == CityEnds(lw, d, cityName, lambda)
      cand == {ek \in ce \X (1..Len(streetSuffixes)) :
                 /\ ek[1] - Len(streetSuffixes[ek[2]]) >= d + 2
                 /\ StartsAt(lw, ek[1] - Len(streetSuffixes[ek[2]]), streetSuffixes[ek[2]])}
      best == CHOOSE ek \in cand : \A fl \in cand :
                 LET p == ek[1] - Len(streetSuffixes[ek[2]])
                     q == fl[1] - Len(streetSuffixes[fl[2]])
                 IN p > q \/ (p = q /\ ek[2] <= fl[2])
  IN IF IsDigit(CharAt(lw, i)) /\ IsSpace(CharAt(lw, d)) /\ cand # {}
     THEN best[1] ELSE 0

\* (\d+\s+[A-Za-z\s]+)\s+(?:city)
AddressPattern2At(lw, i, cityName, lambda) ==
  LET d == RunEnd(lw, i, DigitChars)
      ce == CityEnds(lw, d, cityName, lambda)
  IN IF IsDigit(CharAt(lw, i)) /\ IsSpace(CharAt(lw, d)) /\ ce # {}
     THEN MaxOf(ce) ELSE 0

\* (\d{1,5}\s+[A-Za-z\s]{3,30})\s+(?:city)
AddressPattern3At(lw, i, cityName, lambda) ==
  LET d == RunEnd(lw, i, DigitChars)
      m == RunEnd(lw, d, SpaceChars) - d
      ends == {e \in CityEnds(lw, d, cityName, lambda) : e >= d + 4 /\ e <= d + m + 30}
  IN IF IsDigit(CharAt(lw, i)) /\ d - i <= 5 /\ IsSpace(CharAt(lw, d)) /\ ends # {}
     THEN MaxOf(ends) ELSE 0

AddressPatternAt(n, lw, i, cityName, lambda) ==
  CASE n = 1 -> AddressPattern1At(lw, i, cityName, lambda)
    [] n = 2 -> AddressPattern2At(lw, i, cityName, lambda)
    [] n = 3 -> AddressPattern3At(lw, i, cityName, lambda)

\* where the n-th entry of addressPatterns matches
AddressEnds(n, lw, cityName, lambda) ==
  [i \in 1..Len(lw) |-> AddressPatternAt(n, lw, i, cityName, lambda)]

\* match[1].trim() of fullText.match(addressPatterns[n]), "" when there is no match
AddressCapture(n, s, cityName, lambda) ==
  trim(FirstMatch(s, AddressEnds(n, toLowerCase(s), cityName, lambda)))

HasDigit(s) == \E i \in 1..Len(s) : IsDigit(Ch(s, i))

\* the test with both limits let in
AddressAcceptedFrom5To50(address) ==
  address # "" /\ Len(address) >= 5 /\ Len(address) <= 50 /\ HasDigit(address)

\* address.length > 5 && address.length < 50 && /\d/.test(address)
AddressAccepted(address) ==
  address # "" /\ Len(address) > 5 /\ Len(address) < 50 /\ HasDigit(address)

\* the capture when it is accepted, else ""
AddressIfAccepted(address) == IF AddressAccepted(address) THEN address ELSE ""

\* `${address}, ${cityName}, ${stateName}`, or '' when no pattern gave an address
WithCityAndState(address, cityName, state) ==
  IF address = "" THEN "" ELSE address \o ", " \o cityName \o ", " \o state

\* the loop over addressPatterns
AddressCascade(fullText, cityName, state, lambda) ==
  WithCityAndState(FirstText(AddressIfAccepted(AddressCapture(1, fullText, cityName, lambda)),
                             AddressIfAccepted(AddressCapture(2, fullText, cityName, lambda)),
                             AddressIfAccepted(AddressCapture(3, fullText, cityName, lambda)),
                             ""),
                   cityName, state)

\* load-properties.js and load-properties-mcp.js
parseAddress(fullText, cityName, state) ==
  AddressCascade(fullText, cityName, state, FALSE)

\* RealtyDataService
parseAddressLambda(fullText, cityName, state) ==
  AddressCascade(fullText, cityName, state, TRUE)

(***************************************************************************)
(* parseBeds, parseBaths, parseSqft.  The patterns are matched on the      *)
(* lower-cased text (flag i); the operators give one past the end of       *)
(* capture group 1 of the match starting at i, or 0.                       *)
(***************************************************************************)
AnyWordAt(lw, i, words) == \E k \in 1..Len(words) : StartsAt(lw, i, words[k])

\* (\d+)\s*(?:<words>)
CountPatternAt(lw, i, words) ==
  LET d == RunEnd(lw, i, DigitChars)
  IN IF IsDigit(CharAt(lw, i)) /\ AnyWordAt(lw, RunEnd(lw, d, SpaceChars), words)
     THEN d ELSE 0

\* (\d+)\s*b(?:\s|$)
BedsPattern3At(lw, i) ==
  LET d == RunEnd(lw, i, DigitChars)
      b == RunEnd(lw, d, SpaceChars)
  IN IF IsDigit(CharAt(lw, i)) /\ CharAt(lw, b) = "b"
        /\ (b = Len(lw) \/ IsSpace(CharAt(lw, b + 1)))
     THEN d ELSE 0

BedsPatternAt(n, lw, i) ==
  CASE n = 1 -> CountPatternAt(lw, i, << "bed", "bedroom", "br", "bds" >>)
    [] n = 2 -> CountPatternAt(lw, i, << "bd" >>)
    [] n = 3 -> BedsPattern3At(lw, i)

\* (\d+(?:\.\d+)?)\s*(?:<words>)
DecimalPatternAt(lw, i, words) ==
  LET d == RunEnd(lw, i, DigitChars)
      f == IF CharAt(lw, d) = "." /\ IsDigit(CharAt(lw, d + 1))
           THEN RunEnd(lw, d + 1, DigitChars) ELSE d
  IN IF IsDigit(CharAt(lw, i)) /\ AnyWordAt(lw, RunEnd(lw, f, SpaceChars), words)
     THEN f ELSE 0

BathsPatternAt(n, lw, i) ==
  CASE n = 1 -> DecimalPatternAt(lw, i, << "bath", "bathroom", "ba" >>)
    [] n = 2 -> DecimalPatternAt(lw, i, << "ba" >>)

\* load-properties-mcp.js lists one more alternative in its first pattern
BathsPatternAtMCP(n, lw, i) ==
  CASE n = 1 -> DecimalPatternAt(lw, i, << "bath", "bathroom", "ba", "baths" >>)
    [] n = 2 -> DecimalPatternAt(lw, i, << "ba" >>)

\* the end of (?:,\d{3})* starting at j
RECURSIVE GroupsEnd(_, _)
GroupsEnd(lw, j) ==
  IF CharAt(lw, j) = "," /\ IsDigit(CharAt(lw, j + 1)) /\ IsDigit(CharAt(lw, j + 2))
     /\ IsDigit(CharAt(lw, j + 3))
  THEN GroupsEnd(lw, j + 4) ELSE j

\* (?:sq\.?\s*ft|sqft|square\s*feet) at k
SqftUnitAt(lw, k) ==
  \/ /\ StartsAt(lw, k, "sq")
     /\ LET a == IF CharAt(lw, k + 2) = "." THEN k + 3 ELSE k + 2
        IN \/ StartsAt(lw, RunEnd(lw, a, SpaceChars), "ft")
           \/ StartsAt(lw, RunEnd(lw, k + 2, SpaceChars), "ft")
  \/ StartsAt(lw, k, "sqft")
  \/ (StartsAt(lw, k, "square") /\ StartsAt(lw, RunEnd(lw, k + 6, SpaceChars), "feet"))

\* (\d{1,3}(?:,\d{3})*)\s*<unit>: at most three digits may precede the groups, and
\* what follows the groups has to be the unit
SqftPatternAt(n, lw, i) ==
  LET d == RunEnd(lw, i, DigitChars)
      j == GroupsEnd(lw, d)
      k == RunEnd(lw, j, SpaceChars)
  IN IF IsDigit(CharAt(lw, i)) /\ d - i <= 3
        /\ (IF n = 1 THEN SqftUnitAt(lw, k) ELSE StartsAt(lw, k, "sf"))
     THEN j ELSE 0

\* match[1] of corpus.match(pattern), "" when there is no match
BedsCapture(n, s, lw) == FirstMatch(s, [i \in 1..Len(lw) |-> BedsPatternAt(n, lw, i)])

BathsCapture(n, s, lw) == FirstMatch(s, [i \in 1..Len(lw) |-> BathsPatternAt(n, lw, i)])

BathsCaptureMCP(n, s, lw) == FirstMatch(s, [i \in 1..Len(lw) |-> BathsPatternAtMCP(n, lw, i)])

SqftCapture(n, s, lw) == FirstMatch(s, [i \in 1..Len(lw) |-> SqftPatternAt(n, lw, i)])

\* a Number with a fraction is carried as its decimal text, the way String(x) and a
\* template literal print it: no leading zeros, no trailing zeros of the fraction
RECURSIVE StripLeadingZeros(_)
StripLeadingZeros(s) ==
  IF Len(s) > 1 /\ Ch(s, 1) = "0" THEN StripLeadingZeros(Tail2(s)) ELSE s

RECURSIVE StripTrailingZeros(_)
StripTrailingZeros(s) ==
  IF s # "" /\ Ch(s, Len(s)) = "0" THEN StripTrailingZeros(SubSeq(s, 1, Len(s) - 1)) ELSE s

\* parseFloat of a text of the form digits or digits.digits
parseFloat(s) ==
  LET d == RunEnd(s, 1, DigitChars)
      int == StripLeadingZeros(SubSeq(s, 1, d - 1))
      frac == StripTrailingZeros(SubSeq(s, d + 1, Len(s)))
  IN IF frac = "" THEN int ELSE int \o "." \o frac

\* lo <= x <= hi for a Number in decimal text and integers lo, hi
DecimalBetween(x, lo, hi) ==
  LET d == RunEnd(x, 1, DigitChars)
      int == DigitsValue(SubSeq(x, 1, d - 1), 0)
  IN int >= lo /\ (int < hi \/ (int = hi /\ d > Len(x)))

DefaultBeds == 3

DefaultBaths == "2"

DefaultSqft == 1500

\* (text + ' ' + fullText) of the three parsers
Corpus(text, fullText) == text \o " " \o fullText

\* the number whatever the range is
IfWithinAlways(n, lo, hi) == n

\* the number when it is within [lo, hi], else NaN
IfWithin(n, lo, hi) == IF n # NaN /\ n >= lo /\ n <= hi THEN n ELSE NaN

\* the first of three numbers that is not NaN, else `absent`
FirstNumber(n1, n2, n3, absent) ==
  IF n1 # NaN THEN n1 ELSE IF n2 # NaN THEN n2 ELSE IF n3 # NaN THEN n3 ELSE absent

\* the loop of parseBeds on the corpus s (lw: s in lower case)
BedsLoop(s, lw, lo, absent) ==
  FirstNumber(IfWithin(parseInt(BedsCapture(1, s, lw)), lo, 10),
              IfWithin(parseInt(BedsCapture(2, s, lw)), lo, 10),
              IfWithin(parseInt(BedsCapture(3, s, lw)), lo, 10), absent)

\* the loop of parseBeds: the first pattern whose first match is within [lo, 10]
BedsCascade(s, lo, absent) == BedsLoop(s, toLowerCase(s), lo, absent)

\* load-properties.js and RealtyDataService
parseBeds(text, fullText) == BedsCascade(Corpus(text, fullText), 1, DefaultBeds)

NotApplicable == "N/A"

\* value.toString(), or 'N/A'
TextOrNotApplicable(n) == IF n = NaN THEN NotApplicable ELSE ToString(n)

\* load-properties-mcp.js: beds.toString(), or 'N/A'
parseBedsMCP(text, fullText) == TextOrNotApplicable(BedsCascade(Corpus(text, fullText), 0, NaN))

\* parseFloat(match[1]) when it is within [lo, hi], else ""
BathsIfWithin(b, lo, hi) ==
  IF b # "" /\ DecimalBetween(parseFloat(b), lo, hi) THEN parseFloat(b) ELSE ""

\* the loop of parseBaths on the corpus s (lw: s in lower case)
BathsLoop(s, lw) ==
  FirstText(BathsIfWithin(BathsCapture(1, s, lw), 1, 10),
            BathsIfWithin(BathsCapture(2, s, lw), 1, 10), "", DefaultBaths)

\* load-properties.js and RealtyDataService
parseBaths(text, fullText) ==
  BathsLoop(Corpus(text, fullText), toLowerCase(Corpus(text, fullText)))

BathsLoopMCP(s, lw) ==
  FirstText(BathsIfWithin(BathsCaptureMCP(1, s, lw), 0, 20),
            BathsIfWithin(BathsCaptureMCP(2, s, lw), 0, 20), "", NotApplicable)

\* load-properties-mcp.js: baths.toString(), or 'N/A'
parseBathsMCP(text, fullText) ==
  BathsLoopMCP(Corpus(text, fullText), toLowerCase(Corpus(text, fullText)))

MinSqft == 500

MaxSqft == 10000

\* parseInt(match[1].replace(/,/g, '')) when it is within the range, else NaN
SqftIfWithin(q) == IfWithin(parseInt(Remove(q, {","})), MinSqft, MaxSqft)

SqftLoop(s, lw) ==
  FirstNumber(SqftIfWithin(SqftCapture(1, s, lw)), SqftIfWithin(SqftCapture(2, s, lw)),
              NaN, NaN)

\* the loop of parseSqft; NaN when no pattern gives a value in range
SqftCascade(s) == SqftLoop(s, toLowerCase(s))

\* the number, or the default of the parser
OrDefault(n, default) == IF n = NaN THEN default ELSE n

\* load-properties.js and RealtyDataService
parseSqft(text, fullText) == OrDefault(SqftCascade(Corpus(text, fullText)), DefaultSqft)

(***************************************************************************)
(* The rendered page.  A listing is an element with its descendants `kids` *)
(* in document order; an absent attribute is "" (the code treats null and  *)
(* '' alike).  `wrap` is the class of the element that wraps a descendant  *)
(* inside the listing, "" when it is a child of the listing itself.        *)
(***************************************************************************)
Element(tag, cls, text) ==
  [tag |-> tag, cls |-> cls, testid |-> "", text |-> text, src |-> "", dataSrc |-> "",
   dataLazySrc |-> "", dataOriginal |-> "", href |-> "", alt |-> "", wrap |-> ""]

Image(src, dataSrc) ==
  [Element("img", "", "") EXCEPT !.src = src, !.dataSrc = dataSrc]

Anchor(href, text) == [Element("a", "", text) EXCEPT !.href = href]

Listing(tag, cls, testid, kids) ==
  [tag |-> tag, cls |-> cls, testid |-> testid, kids |-> kids]

\* a selector: ancestor class, tag, class, [class*=sub], [attr op val]; "" is no condition
Selector(anc, tag, cls, sub, attr, op, val) ==
  [anc |-> anc, tag |-> tag, cls |-> cls, sub |-> sub, attr |-> attr, op |-> op, val |-> val]

ByClass(cls) == Selector("", "", cls, "", "", "", "")

ByClassPart(tag, sub) == Selector("", tag, "", sub, "", "", "")

ByTag(tag) == Selector("", tag, "", "", "", "", "")

ByAttr(tag, attr, op, val) == Selector("", tag, "", "", attr, op, val)

Within(anc, tag) == Selector(anc, tag, "", "", "", "", "")

\* the class attribute holds the class name as one of its blank-separated tokens
HasClass(classAttr, cls) == includes(" " \o classAttr \o " ", " " \o cls \o " ")

AttributeOf(el, attr) ==
  CASE attr = "src" -> el.src
    [] attr = "data-src" -> el.dataSrc
    [] attr = "data-lazy-src" -> el.dataLazySrc
    [] attr = "data-original" -> el.dataOriginal
    [] attr = "href" -> el.href
    [] attr = "alt" -> el.alt
    [] attr = "data-testid" -> el.testid
    [] attr = "class" -> el.cls

\* the element matches the simple selector (tag, class and attribute conditions)
MatchesSimple(sel, tag, cls, value) ==
  /\ sel.tag = "" \/ sel.tag = tag
  /\ sel.cls = "" \/ HasClass(cls, sel.cls)
  /\ sel.sub = "" \/ includes(cls, sel.sub)
  /\ CASE sel.op = "" -> TRUE
       [] sel.op = "=" -> value # "" /\ value = sel.val
       [] sel.op = "*=" -> value # "" /\ includes(value, sel.val)

\* listing.querySelector(sel) can return the descendant el: an ancestor named by a
\* descendant combinator may be the listing itself, which is outside the scope
Matches(sel, el, listing) ==
  /\ MatchesSimple(sel, el.tag, el.cls, IF sel.op = "" THEN "" ELSE AttributeOf(el, sel.attr))
  /\ sel.anc = "" \/ HasClass(el.wrap, sel.anc) \/ HasClass(listing.cls, sel.anc)

\* the index among the kids of listing.querySelector(sel), 0 for null
querySelector(listing, sel) ==
  LET hits == {k \in 1..Len(listing.kids) : Matches(sel, listing.kids[k], listing)}
  IN IF hits = {} THEN 0 ELSE MinOf(hits)

priceSelectors ==
  << ByClass("listing-price"), ByClass("price"), ByClassPart("", "price"),
     ByClass("listing-card-price"), ByClass("property-price"),
     ByAttr("", "data-testid", "*=", "price"), ByClassPart("span", "price"),
     ByClassPart("div", "price") >>

addressSelectors ==
  << ByClass("listing-address"), ByClass("address"), ByClass("listing-card-address"),
     ByClass("property-address"), ByTag("h3"), ByTag("h4"), ByTag("h2"),
     ByClassPart("", "address"), ByAttr("", "data-testid", "*=", "address") >>

imageSelectors ==
  << Within("listing-image", "img"), Within("property-image", "img"),
     Within("listing-card", "img"), ByAttr("img", "src", "*=", "listing"),
     ByAttr("img", "src", "*=", "property"), ByAttr("img", "src", "*=", "realty"),
     ByAttr("img", "alt", "*=", "property"), ByAttr("img", "alt", "*=", "listing"),
     ByTag("img") >>

linkSelectors ==
  << ByAttr("a", "href", "*=", "/home-listings/"), ByAttr("a", "href", "*=", "/property/"),
     ByAttr("a", "href", "*=", "/listing/"), ByAttr("a", "href", "*=", "/realty/"),
     ByAttr("a", "href", "*=", "/home/"), ByTag("a") >>

\* listing.textContent
RECURSIVE TextOf(_)
TextOf(kids) == IF kids = << >> THEN "" ELSE Head(kids).text \o TextOf(Tail(kids))

\* the first of the texts that is not empty, '' when there is none
FirstNonEmpty(texts) ==
  LET ok == {n \in DOMAIN texts : texts[n] # ""}
  IN IF ok = {} THEN "" ELSE texts[MinOf(ok)]

\* element?.textContent?.trim() of the k-th descendant, "" for null
TrimmedText(listing, k) == IF k = 0 THEN "" ELSE trim(listing.kids[k].text)

\* element?.getAttribute(attribute) of the k-th descendant, "" for null
AttributeAt(listing, k, attribute) ==
  IF k = 0 THEN "" ELSE AttributeOf(listing.kids[k], attribute)

\* element?.textContent?.trim() of the n-th selector, "" when nothing matches
SelectedText(listing, selectors, n) ==
  TrimmedText(listing, querySelector(listing, selectors[n]))

\* element?.getAttribute(attribute) of the n-th selector, "" when there is none
SelectedAttribute(listing, selectors, n, attribute) ==
  AttributeAt(listing, querySelector(listing, selectors[n]), attribute)

\* load-properties.js and load-properties-mcp.js
extractText(listing, selectors) ==
  FirstNonEmpty([n \in 1..Len(selectors) |-> SelectedText(listing, selectors, n)])

\* a text naming an agent counts as no text
UnlessAgent(text) ==
  IF includes(text, "Eddie Staats") \/ includes(text, "Agent") THEN "" ELSE text

\* RealtyDataService: texts naming an agent are passed over
extractTextLambda(listing, selectors) ==
  FirstNonEmpty([n \in 1..Len(selectors) |->
                   UnlessAgent(SelectedText(listing, selectors, n))])

extractAttribute(listing, selectors, attribute) ==
  FirstNonEmpty([n \in 1..Len(selectors) |->
                   SelectedAttribute(listing, selectors, n, attribute)])

\* the attributes an image URL is looked for in, in this order
imageAttributes == << "src", "data-src", "data-lazy-src", "data-original" >>

SiteOrigin == "https://www.realty.com"

\* extractAttribute(imageSelectors, 'src') || ... 'data-src' || ... || 'data-original'
RawImageUrl(listing) ==
  FirstNonEmpty([a \in 1..Len(imageAttributes) |->
                   extractAttribute(listing, imageSelectors, imageAttributes[a])])

NormalizeImageUrl(imageUrl) ==
  IF imageUrl # "" /\ ~startsWith(imageUrl, "http") /\ ~startsWith(imageUrl, "data:")
  THEN IF startsWith(imageUrl, "//") THEN "https:" \o imageUrl
       ELSE IF startsWith(imageUrl, "/") THEN SiteOrigin \o imageUrl
       ELSE imageUrl
  ELSE imageUrl

AbsolutePropertyUrl(propertyUrl) ==
  IF propertyUrl # "" /\ ~startsWith(propertyUrl, "http")
  THEN IF startsWith(propertyUrl, "/") THEN SiteOrigin \o propertyUrl
       ELSE SiteOrigin \o "/" \o propertyUrl
  ELSE propertyUrl

deniedUrlParts == << "mailto:", "tel:", "javascript:", "#", "agent", "contact" >>

\* load-properties.js and RealtyDataService: non-property URLs are dropped
NormalizePropertyUrl(href) ==
  LET propertyUrl == AbsolutePropertyUrl(href)
  IN IF \E k \in 1..Len(deniedUrlParts) : includes(propertyUrl, deniedUrlParts[k])
     THEN "" ELSE propertyUrl

\* load-properties-mcp.js: no deny-list
NormalizePropertyUrlMCP(href) == AbsolutePropertyUrl(href)

(***************************************************************************)
(* Record finalization: the rest of the callback of propertyListings.map.  *)
(* `draw` holds what the callback reads from its environment: the three    *)
(* Math.random() results as the values computed from them (streetNumber,   *)
(* and the positions of streetName and streetType), the random suffix of   *)
(* the MCP objectID, and the clock (Date.now(), new Date()).               *)
(***************************************************************************)
streetNames ==
  << "Main", "Oak", "Maple", "Cedar", "Pine", "Elm", "Park", "North", "South", "East", "West" >>

streetTypes == << "St", "Ave", "Rd", "Dr", "Ln", "Blvd", "Ct", "Pl" >>

\* the template with the state left out
SynthesizedAddressWithoutState(draw, cityName, state) ==
  ToString(draw.streetNumber) \o " " \o streetNames[draw.streetName] \o " "
    \o streetTypes[draw.streetType] \o ", " \o cityName

\* `${streetNumber} ${streetName} ${streetType}, ${cityName}, ${stateName}`
SynthesizedAddress(draw, cityName, state) ==
  ToString(draw.streetNumber) \o " " \o streetNames[draw.streetName] \o " "
    \o streetTypes[draw.streetType] \o ", " \o cityName \o ", " \o state

MinAddressLength == 10

\* load-properties.js: extractedAddress || addressText, else a synthesized one
FallbackTaken(extractedAddress, addressText) ==
  LET finalAddress == IF extractedAddress # "" THEN extractedAddress ELSE addressText
  IN finalAddress = "" \/ Len(finalAddress) < MinAddressLength

\* RealtyDataService: texts naming an agent are replaced as well
FallbackTakenLambda(extractedAddress, addressText) ==
  LET finalAddress == IF extractedAddress # "" THEN extractedAddress ELSE addressText
  IN \/ finalAddress = ""
     \/ includes(finalAddress, "Eddie")
     \/ includes(finalAddress, "Agent")
     \/ Len(finalAddress) < MinAddressLength

\* the address synthesized whether or not the listing has one
FinalAddressSynthesized(extractedAddress, addressText, fallback, draw, cityName, state) ==
  SynthesizedAddress(draw, cityName, state)

FinalAddress(extractedAddress, addressText, fallback, draw, cityName, state) ==
  IF fallback THEN SynthesizedAddress(draw, cityName, state)
  ELSE IF extractedAddress # "" THEN extractedAddress ELSE addressText

DefaultPriceNum == 250000

\* the number without the fallback
PriceNumWithoutFallback(price) == NumericPrice(price)

\* parseInt(price.replace(/[\$,]/g, '')) || 250000
PriceNum(price) ==
  LET n == NumericPrice(price) IN IF n = NaN \/ n = 0 THEN DefaultPriceNum ELSE n

\* the buckets with the first limit at 300000
PriceRangeFrom300K(priceNum) ==
  IF priceNum # NaN /\ priceNum > 0
  THEN IF priceNum < 300000 THEN "Under $200K"
       ELSE IF priceNum < 400000 THEN "$200K - $400K"
       ELSE IF priceNum < 600000 THEN "$400K - $600K"
       ELSE "Over $600K"
  ELSE "Unknown"

\* the bucket of a numeric price; NaN compares false with everything
PriceRange(priceNum) ==
  IF priceNum # NaN /\ priceNum > 0
  THEN IF priceNum < 200000 THEN "Under $200K"
       ELSE IF priceNum < 400000 THEN "$200K - $400K"
       ELSE IF priceNum < 600000 THEN "$400K - $600K"
       ELSE "Over $600K"
  ELSE "Unknown"

\* one type whatever the bed count is
PropertyTypeSingleFamily(beds) == "Single Family Home"

\* beds is the number of load-properties.js and RealtyDataService, or parseInt(beds)
PropertyType(beds) ==
  IF beds = 1 THEN "Condo/Apartment"
  ELSE IF beds = 2 THEN "Townhouse/Condo" ELSE "Single Family Home"

\* the first sentence of the description, common to the three copies
DescriptionHead(beds, baths, propertyType, cityName, state) ==
  "Beautiful " \o beds \o " bed, " \o baths \o " bath " \o toLowerCase(propertyType)
    \o " in " \o cityName \o ", " \o state
    \o ". Features modern amenities and great location."

\* what load-properties.js and load-properties-mcp.js add to it
DescriptionTail(beds, baths, sqft, propertyType, priceRange, price, cityName, state) ==
  " " \o priceRange \o " price range. " \o beds \o " bedroom " \o baths
    \o " bathroom home with " \o sqft \o " square feet. Property type: " \o propertyType
    \o ". Located in " \o cityName \o " " \o state \o ". " \o price
    \o " house home property real estate."

\* `property_${Date.now()}_${index}`
ObjectId(now, index) == "property_" \o ToString(now) \o "_" \o ToString(index)

\* `property_${Date.now()}_${Math.random().toString(36).substr(2, 9)}`
ObjectIdMCP(now, suffix) == "property_" \o ToString(now) \o "_" \o suffix

\* the entry of the mapped array for a listing the callback returns null for
NullEntry == [null |-> TRUE]

IsNull(entry) == "null" \in DOMAIN entry

\* load-properties.js, the callback of propertyListings.map: the raw fields
RawLoad(listing) ==
  [priceText |-> extractText(listing, priceSelectors),
   addressText |-> extractText(listing, addressSelectors),
   imageUrl |-> NormalizeImageUrl(RawImageUrl(listing)),
   propertyUrl |-> NormalizePropertyUrl(extractAttribute(listing, linkSelectors, "href")),
   fullText |-> TextOf(listing.kids)]

\* and what the parsers make of them
ParsedLoad(raw, cityName, state) ==
  [priceText |-> raw.priceText, addressText |-> raw.addressText,
   imageUrl |-> raw.imageUrl, propertyUrl |-> raw.propertyUrl, fullText |-> raw.fullText,
   beds |-> parseBeds(raw.fullText, raw.fullText),
   baths |-> parseBaths(raw.fullText, raw.fullText),
   sqft |-> parseSqft(raw.fullText, raw.fullText),
   price |-> parsePrice(raw.priceText, raw.fullText),
   extractedAddress |-> parseAddress(raw.fullText, cityName, state),
   fallback |-> FALSE]

\* whether the address will be synthesized
MarkFallback(f) ==
  [f EXCEPT !.fallback = FallbackTaken(f.extractedAddress, f.addressText)]

\* load-properties.js, the callback of propertyListings.map up to the price gate
ParseLoad(listing, cityName, state) ==
  MarkFallback(ParsedLoad(RawLoad(listing), cityName, state))

\* no price is a reason to skip the listing
PriceRejectedNever(price) == FALSE

\* `if (!price)`: the listing is skipped
PriceRejected(price) == price = Null

\* load-properties.js, the rest of the callback
FinalizeLoad(f, index, cityName, state, draw) ==
  LET priceRange == PriceRange(PriceNum(f.price))
      propertyType == PropertyType(f.beds)
  IN IF PriceRejected(f.price) THEN NullEntry
     ELSE [objectID |-> ObjectId(draw.now, index),
           address |-> FinalAddress(f.extractedAddress, f.addressText, f.fallback, draw,
                                    cityName, state),
           price |-> f.price, beds |-> f.beds, baths |-> f.baths, sqft |-> f.sqft,
           description |->
             DescriptionHead(ToString(f.beds), f.baths, propertyType, cityName, state)
               \o DescriptionTail(ToString(f.beds), f.baths, ToString(f.sqft), propertyType,
                                  priceRange, f.price, cityName, state),
           imageUrl |-> f.imageUrl, propertyUrl |-> f.propertyUrl,
           city |-> cityName, state |-> state,
           priceRange |-> priceRange, propertyType |-> propertyType,
           collectedAt |-> draw.now]

\* load-properties-mcp.js, the callback of propertyListings.map: the raw fields
RawMCP(listing) ==
  [priceText |-> extractText(listing, priceSelectors),
   addressText |-> extractText(listing, addressSelectors),
   imageUrl |-> NormalizeImageUrl(RawImageUrl(listing)),
   propertyUrl |-> NormalizePropertyUrlMCP(extractAttribute(listing, linkSelectors, "href")),
   fullText |-> TextOf(listing.kids)]

\* load-properties-mcp.js, the callback up to the validity gate; sqft is the number
\* as text, or 'N/A'; no address is synthesized
ParsedMCP(raw, cityName, state) ==
  [priceText |-> raw.priceText, addressText |-> raw.addressText,
   imageUrl |-> raw.imageUrl, propertyUrl |-> raw.propertyUrl, fullText |-> raw.fullText,
   beds |-> parseBedsMCP(raw.fullText, raw.fullText),
   baths |-> parseBathsMCP(raw.fullText, raw.fullText),
   sqft |-> TextOrNotApplicable(SqftCascade(Corpus(raw.fullText, raw.fullText))),
   price |-> parsePriceMCP(raw.priceText \o " " \o raw.fullText, raw.fullText),
   extractedAddress |-> parseAddress(raw.fullText, cityName, state),
   fallback |-> FALSE]

ParseMCP(listing, cityName, state) == ParsedMCP(RawMCP(listing), cityName, state)

\* load-properties-mcp.js, the rest of the callback
FinalizeMCP(f, index, cityName, state, draw) ==
  LET address == IF f.extractedAddress # "" THEN f.extractedAddress ELSE f.addressText
      numericPrice == NumericPrice(f.price)
      priceRange == PriceRange(numericPrice)
      propertyType == PropertyType(parseInt(f.beds))
  IN IF PriceRejected(f.price) \/ address = "" \/ f.imageUrl = "" \/ f.propertyUrl = ""
     THEN NullEntry
     ELSE [objectID |-> ObjectIdMCP(draw.now, draw.suffix),
           address |-> address,
           price |-> f.price, priceNumeric |-> numericPrice,
           beds |-> f.beds, baths |-> f.baths, sqft |-> f.sqft,
           description |->
             DescriptionHead(f.beds, f.baths, propertyType, cityName, state)
               \o DescriptionTail(f.beds, f.baths, f.sqft, propertyType, priceRange,
                                  f.price, cityName, state),
           imageUrl |-> f.imageUrl, propertyUrl |-> f.propertyUrl,
           city |-> cityName, state |-> state,
           priceRange |-> priceRange, propertyType |-> propertyType,
           timestamp |-> draw.now, collectedAt |-> draw.now, source |-> "realty.com"]

\* RealtyDataService, the callback of propertyListings.map: the raw fields
RawLambda(listing) ==
  [priceText |-> extractTextLambda(listing, priceSelectors),
   addressText |-> extractTextLambda(listing, addressSelectors),
   imageUrl |-> NormalizeImageUrl(RawImageUrl(listing)),
   propertyUrl |-> NormalizePropertyUrl(extractAttribute(listing, linkSelectors, "href")),
   fullText |-> TextOf(listing.kids)]

\* and what the parsers make of them
ParsedLambda(raw, cityName, state) ==
  [priceText |-> raw.priceText, addressText |-> raw.addressText,
   imageUrl |-> raw.imageUrl, propertyUrl |-> raw.propertyUrl, fullText |-> raw.fullText,
   beds |-> parseBeds(raw.fullText, raw.fullText),
   baths |-> parseBaths(raw.fullText, raw.fullText),
   sqft |-> parseSqft(raw.fullText, raw.fullText),
   price |-> parsePriceLambda(raw.priceText, raw.fullText),
   extractedAddress |-> parseAddressLambda(raw.fullText, cityName, state),
   fallback |-> FALSE]

MarkFallbackLambda(f) ==
  [f EXCEPT !.fallback = FallbackTakenLambda(f.extractedAddress, f.addressText)]

\* RealtyDataService, the callback up to the address fallback
ParseLambda(listing, cityName, state) ==
  MarkFallbackLambda(ParsedLambda(RawLambda(listing), cityName, state))

\* RealtyDataService, the rest of the callback: no listing is rejected
FinalizeLambda(f, index, cityName, state, draw) ==
  LET priceRange == PriceRange(PriceNum(f.price))
      propertyType == PropertyType(f.beds)
  IN [id |-> ObjectId(draw.now, index),
      address |-> FinalAddress(f.extractedAddress, f.addressText, f.fallback, draw,
                               cityName, state),
      price |-> f.price, beds |-> f.beds, baths |-> f.baths, sqft |-> f.sqft,
      description |->
        DescriptionHead(ToString(f.beds), f.baths, propertyType, cityName, state),
      imageUrl |-> f.imageUrl, propertyUrl |-> f.propertyUrl,
      city |-> cityName, state |-> state,
      priceRange |-> priceRange, propertyType |-> propertyType,
      collectedAt |-> draw.now]

Pipelines == {"load", "mcp", "lambda"}

ParseFields(pl, listing, cityName, state) ==
  CASE pl = "load" -> ParseLoad(listing, cityName, state)
    [] pl = "mcp" -> ParseMCP(listing, cityName, state)
    [] pl = "lambda" -> ParseLambda(listing, cityName, state)

FinalizeRecord(pl, f, index, cityName, state, draw) ==
  CASE pl = "load" -> FinalizeLoad(f, index, cityName, state, draw)
    [] pl = "mcp" -> FinalizeMCP(f, index, cityName, state, draw)
    [] pl = "lambda" -> FinalizeLambda(f, index, cityName, state, draw)

(***************************************************************************)
(* Inputs: the requests and the pages the model runs the pipelines on.     *)
(***************************************************************************)
LongCity == "Lake Chargoggagoggmanchauggagoggchaubunagungamaugg"

Cities == {"Parma", LongCity}

States == {"OH"}

\* descendants of a listing that carry text
TextKids ==
  { Element("span", "listing-price", "$325,000 "),
    Element("span", "price", "Call for Price "),
    Element("span", "fee", "$5,000 "),
    Element("span", "", "450,000 $ "),
    Element("p", "summary", "$325,000 "),
    Element("div", "badge", "SOLD "),
    Element("h3", "", "4521 Ridge Road "),
    Element("div", "listing-address", "12 Oak St Parma OH "),
    Element("div", "details", "3 bed 2.5 bath 1,200 sqft ") }

\* the image and the link of a listing, when it has them
MediaKids ==
  { << >>, << Image("//cdn.site.com/a.jpg", ""), Anchor("/property/123", "") >> }

\* the sequences of n different elements of S
RECURSIVE Arrangements(_, _)
Arrangements(S, n) ==
  IF n = 0 THEN { << >> }
  ELSE {Append(qx[1], qx[2]) :
          qx \in {rx \in Arrangements(S, n - 1) \X S :
                    \A i \in 1..Len(rx[1]) : rx[1][i] # rx[2]}}

ArrangementsUpTo(S, n) == UNION {Arrangements(S, k) : k \in 0..n}

\* images and links of other forms: relative, absolute, a data: URI, a mail link,
\* an in-page anchor
OtherMedia ==
  { << Image("img/c.jpg", ""), Anchor("mailto:agent@example.com", "") >>,
    << Image("https://cdn.site.com/d.jpg", ""),
       Anchor("https://www.realty.com/property/789#photos", "") >>,
    << Image("data:image/png;base64,AAAA", ""), Anchor("property/321", "") >>,
    << Image("/img/e.jpg", ""), Anchor("/agent/42", "") >> }

\* what a listing may say of its rooms and its area
DetailTexts ==
  { "15 beds 0.5 bath 120 sqft ", "1 bd 1 ba 900 sf ", "2 br 12 bath 20,000 sq ft ",
    "0 bed 3 b " }

\* a listing with a price, an address and the given further descendants
CompleteListing(kids) ==
  Listing("div", "listing-card", "",
          << Element("span", "listing-price", "$325,000 "),
             Element("div", "listing-address", "12 Oak St Parma OH ") >> \o kids)

\* prices on both sides of the limits of the price ranges
PriceTexts == { "$150,000 ", "$199,999 ", "$200,000 ", "$599,999 ", "$600,000 ", "$1,250,000 " }

\* a listing with the given price and everything else
PricedListing(price) ==
  Listing("div", "listing-card", "",
          << Element("span", "listing-price", price),
             Element("div", "listing-address", "12 Oak St Parma OH "),
             Image("//cdn.site.com/a.jpg", ""), Anchor("/property/123", "") >>)

\* street addresses followed by a city: of 5 and of 6 characters, without a street
\* suffix, of 50 and of 49 characters
AddressTexts ==
  { "1 Elm Parma OH ", "12 Elm Parma OH ", "77 Sunset Strip Parma OH ",
    "1 Old Mill Creek Hollow Ridge Meadow Farm Grove Rd Parma OH ",
    "1 Old Mill Creek Hollow Ridge Meadow Farm Glen Rd Parma OH " }

\* a listing with the given address text and everything else
AddressedListing(address) ==
  Listing("div", "listing-card", "",
          << Element("span", "listing-price", "$325,000 "),
             Element("div", "listing-address", address),
             Image("//cdn.site.com/a.jpg", ""), Anchor("/property/123", "") >>)

\* a listing whose first address element names the agent
AgentListing ==
  Listing("div", "listing-card", "",
          << Element("span", "listing-price", "$325,000 "),
             Element("div", "listing-address", "Listing Agent Jane Roe "),
             Element("h3", "", "4521 Ridge Road "),
             Image("//cdn.site.com/a.jpg", ""), Anchor("/property/123", "") >>)

\* the listing nodes the parsers and the finalization are applied to
Nodes ==
  {Listing("div", "listing-card", "", t \o m) :
     t \in ArrangementsUpTo(TextKids, MaxKids), m \in MediaKids}
    \cup {CompleteListing(m) : m \in OtherMedia}
    \cup {CompleteListing(<< Element("div", "details", d),
                              Image("//cdn.site.com/a.jpg", ""),
                              Anchor("/property/123", "") >>) : d \in DetailTexts}
    \cup {PricedListing(p) : p \in PriceTexts}
    \cup {AgentListing}
    \cup {AddressedListing(a) : a \in AddressTexts}

\* what one run of the callback reads from Math.random()
AddressDraws ==
  { [streetNumber |-> 1, streetName |-> 6, streetType |-> 1],
    [streetNumber |-> 9999, streetName |-> 3, streetType |-> 6] }

SuffixDraws == {"k3x9q2m1z", "a1b2c3d4e"}

Draws(now) ==
  {[streetNumber |-> a.streetNumber, streetName |-> a.streetName,
    streetType |-> a.streetType, suffix |-> x, now |-> now] :
     a \in AddressDraws, x \in SuffixDraws}

(***************************************************************************)
(* State.                                                                  *)
(***************************************************************************)
VARIABLES
  pipeline,         \* which copy of the pipeline runs: "load", "mcp" or "lambda"
  city,             \* the city of the request
  stateName,        \* the state of the request
  clock,            \* Date.now()
  node,             \* the listing node the callback is applied to
  parsed,           \* its raw and parsed fields
  rec1,             \* the entry a first run of the finalization returns
  rec2,             \* the entry a second run on the same fields returns
  fpc,              \* where the two runs are
  maxProperties,    \* the third argument of collectProperties
  page,             \* the elements of the rendered page that may be listings
  pc,               \* where collectProperties is
  selectorResults,  \* selector -> number of elements, 0 when it has no entry
  bestSelector,     \* the selector chosen
  propertyCount,    \* and its count
  properties,       \* the array collectProperties returns
  origins,          \* per entry of properties: the index of the listing it is of
  outcome,          \* "pending", "no-listings" or "collected"
  calls,            \* per invocation of collectProperties and its caller: where it is
  browser,          \* per owner of a browser: the session of its browser, 0 for null
  context,          \* per owner: the session of its context, 0 for null
  closed,           \* the sessions (a browser and the context made in it) closed
  searchIndex,      \* the search index: objectID -> the record and who saved it
  overwritten,      \* the objectIDs one invocation saved over another's record
  mcp               \* indexPropertiesViaMCP: its promise, the child process and the timer

request == << pipeline, city, stateName, clock >>

fieldVars == << node, parsed, rec1, rec2, fpc >>

collectVars ==
  << maxProperties, page, pc, selectorResults, bestSelector, propertyCount,
     properties, origins, outcome >>

serviceVars == << calls, browser, context, closed, searchIndex, overwritten, mcp >>

vars == << request, fieldVars, collectVars, serviceVars >>

\* no value yet
Pending == [pending |-> TRUE]

IsPending(x) == "pending" \in DOMAIN x

(***************************************************************************)
(* The callback of propertyListings.map on one listing node, and a second  *)
(* run of its finalization on the same fields.                             *)
(***************************************************************************)
\* no invocation of a service is under way
ServiceIdle ==
  /\ calls = << >>
  /\ browser = << >>
  /\ context = << >>
  /\ closed = {}
  /\ searchIndex = << >>
  /\ overwritten = {}
  /\ mcp = << >>

\* collectProperties is not running
CollectIdle ==
  /\ maxProperties = 0
  /\ page = << >>
  /\ pc = "idle"
  /\ selectorResults = << >>
  /\ bestSelector = ""
  /\ propertyCount = 0
  /\ properties = << >>
  /\ origins = << >>
  /\ outcome = "pending"

FieldInit ==
  /\ pipeline \in Pipelines
  /\ city \in Cities
  /\ stateName \in States
  /\ clock = 0
  /\ node \in Nodes
  /\ parsed = Pending
  /\ rec1 = Pending
  /\ rec2 = Pending
  /\ fpc = "raw"
  /\ CollectIdle
  /\ ServiceIdle

ParseNode ==
  /\ fpc = "raw"
  /\ parsed' = ParseFields(pipeline, node, city, stateName)
  /\ fpc' = "parsed"
  /\ UNCHANGED << request, node, rec1, rec2, collectVars,
                  serviceVars >>

FinalizeOnce ==
  /\ fpc = "parsed"
  /\ \E elapsed \in 0..1 : \E draw \in Draws(clock + elapsed) :
       /\ clock' = clock + elapsed
       /\ rec1' = FinalizeRecord(pipeline, parsed, 0, city, stateName, draw)
  /\ fpc' = "once"
  /\ UNCHANGED << pipeline, city, stateName, node, parsed, rec2, collectVars,
                  serviceVars >>

FinalizeAgain ==
  /\ fpc = "once"
  /\ \E elapsed \in 0..1 : \E draw \in Draws(clock + elapsed) :
       /\ clock' = clock + elapsed
       /\ rec2' = FinalizeRecord(pipeline, parsed, 0, city, stateName, draw)
  /\ fpc' = "twice"
  /\ UNCHANGED << pipeline, city, stateName, node, parsed, rec1, collectVars,
                  serviceVars >>

FieldNext == ParseNode \/ FinalizeOnce \/ FinalizeAgain

FieldSpec == FieldInit /\ [][FieldNext]_vars

(***************************************************************************)
(* collectProperties on one page.                                          *)
(***************************************************************************)
propertySelectors ==
  << ".listing-card", "[data-testid=\"property-card\"]", "[data-testid=\"listing-card\"]",
     ".property-card", ".search-result-item", "[class*=\"listing\"]",
     "[class*=\"property\"]", "[class*=\"card\"]", "div[class*=\"result\"]" >>

fallbackSelectors ==
  << "[class*=\"card\"]", "div[class*=\"result\"]", "[class*=\"listing\"]",
     "[class*=\"property\"]" >>

PrimarySelector == ".listing-card"

\* the selector a selector text stands for
SelectorOf(text) ==
  CASE text = ".listing-card" -> ByClass("listing-card")
    [] text = "[data-testid=\"property-card\"]" -> ByAttr("", "data-testid", "=", "property-card")
    [] text = "[data-testid=\"listing-card\"]" -> ByAttr("", "data-testid", "=", "listing-card")
    [] text = ".property-card" -> ByClass("property-card")
    [] text = ".search-result-item" -> ByClass("search-result-item")
    [] text = "[class*=\"listing\"]" -> ByClassPart("", "listing")
    [] text = "[class*=\"property\"]" -> ByClassPart("", "property")
    [] text = "[class*=\"card\"]" -> ByClassPart("", "card")
    [] text = "div[class*=\"result\"]" -> ByClassPart("div", "result")

\* a descendant of a listing as an element of the document: what it contains is its text
AsNode(kid) ==
  Listing(kid.tag, kid.cls, kid.testid,
          IF kid.text = "" THEN << >> ELSE << Element("#text", "", kid.text) >>)

\* the elements of the document in document order: each element of the page, then
\* its descendants
RECURSIVE Document(_)
Document(elements) ==
  IF elements = << >> THEN << >>
  ELSE << Head(elements) >>
         \o [k \in 1..Len(Head(elements).kids) |-> AsNode(Head(elements).kids[k])]
         \o Document(Tail(elements))

\* document.querySelectorAll(selector)
querySelectorAll(elements, text) ==
  SelectSeq(Document(elements),
            LAMBDA n : MatchesSimple(SelectorOf(text), n.tag, n.cls, n.testid))

\* the entries the loop over propertySelectors leaves in selectorResults: the
\* selectors that match an element, with their counts
TestSelectors(elements) ==
  LET counts == [k \in 1..Len(propertySelectors) |->
                   Len(querySelectorAll(elements, propertySelectors[k]))]
  IN [text \in {propertySelectors[k] : k \in {j \in 1..Len(propertySelectors) : counts[j] > 0}}
        |-> counts[CHOOSE k \in 1..Len(propertySelectors) : propertySelectors[k] = text]]

\* selectorResults[selector] || 0
ResultOf(results, text) == IF text \in DOMAIN results THEN results[text] ELSE 0

\* the fallback taken in the order of propertySelectors
BestSelectorInCandidateOrder(results) ==
  LET working == {k \in 1..Len(propertySelectors) : ResultOf(results, propertySelectors[k]) > 0}
  IN IF working = {} THEN PrimarySelector ELSE propertySelectors[MinOf(working)]

\* "Find the best working selector"
BestSelector(results) ==
  LET working == {k \in 1..Len(fallbackSelectors) : ResultOf(results, fallbackSelectors[k]) > 0}
  IN IF ResultOf(results, PrimarySelector) > 0 \/ working = {} THEN PrimarySelector
     ELSE fallbackSelectors[MinOf(working)]

\* Array.prototype.slice(0, n) for n >= 0
Slice(seq, n) == SubSeq(seq, 1, IF n < Len(seq) THEN n ELSE Len(seq))

\* RealtyDataService: slice(0, 20), whatever maxProperties is
LambdaLimit == 20

\* propertyListings of page.evaluate
PropertyListings ==
  Slice(querySelectorAll(page, bestSelector),
        IF pipeline = "lambda" THEN LambdaLimit ELSE maxProperties)

\* elements that are listings of a page
PageElements ==
  { Listing("div", "listing-card", "",
            << Element("span", "listing-price", "$325,000 "),
               Element("div", "listing-address", "12 Oak St Parma OH "),
               Image("//cdn.site.com/a.jpg", ""), Anchor("/property/123", "") >>),
    Listing("div", "listing-card", "",
            << Element("span", "price", "Call for Price "),
               Element("h3", "", "4521 Ridge Road "),
               Image("/img/b.jpg", ""), Anchor("/property/456", "") >>),
    Listing("article", "", "property-card",
            << Element("span", "amount", "$289,900 ") >>),
    Listing("div", "result-card", "",
            << Element("span", "amount", "$450,000 ") >>),
    Listing("div", "home-listing", "",
            << Element("span", "listing-price", "$525,000 ") >>) }

\* a page of two listings that both have a price, an address, an image and a link
TwoComplete ==
  << CompleteListing(<< Image("//cdn.site.com/a.jpg", ""), Anchor("/property/123", "") >>),
     CompleteListing(<< Image("/img/e.jpg", ""), Anchor("/property/654", "") >>) >>

\* the pages: up to MaxNodes of these elements, in any order, and the page of two
\* complete listings
Pages == ArrangementsUpTo(PageElements, MaxNodes) \cup {TwoComplete}

Init ==
  /\ pipeline \in Pipelines
  /\ city \in Cities
  /\ stateName \in States
  /\ clock = 0
  /\ node = Listing("", "", "", << >>)
  /\ parsed = Pending
  /\ rec1 = Pending
  /\ rec2 = Pending
  /\ fpc = "idle"
  /\ maxProperties \in 0..MaxCount
  /\ page \in Pages
  /\ pc = "start"
  /\ selectorResults = << >>
  /\ bestSelector = ""
  /\ propertyCount = 0
  /\ properties = << >>
  /\ origins = << >>
  /\ outcome = "pending"
  /\ ServiceIdle

\* initializeBrowser, context.newPage, page.goto, page.waitForTimeout
Navigate ==
  /\ pc = "start"
  /\ pc' = "loaded"
  /\ UNCHANGED << request, fieldVars, maxProperties, page, selectorResults, bestSelector,
                  propertyCount, properties, origins, outcome,
                  serviceVars >>

\* the loop over propertySelectors and the choice of the selector; `return []` when
\* the chosen selector counts no element
Locate ==
  /\ pc = "loaded"
  /\ selectorResults' = TestSelectors(page)
  /\ bestSelector' = BestSelector(selectorResults')
  /\ propertyCount' = ResultOf(selectorResults', bestSelector')
  /\ IF propertyCount' = 0
     THEN pc' = "finally" /\ outcome' = "no-listings"
     ELSE pc' = "evaluate" /\ outcome' = outcome
  /\ UNCHANGED << request, fieldVars, maxProperties, page, properties, origins,
                  serviceVars >>

\* the entries the callback of a pipeline can return for the listing at an index
EntriesFor(pl, fields, index, cityName, state, now) ==
  {FinalizeRecord(pl, fields, index, cityName, state, draw) : draw \in Draws(now)}

\* the arrays it can give for the first `count` listings
RECURSIVE MappedFor(_, _, _, _, _, _)
MappedFor(pl, fields, count, cityName, state, now) ==
  IF count = 0 THEN { << >> }
  ELSE {Append(front, entry) :
          front \in MappedFor(pl, fields, count - 1, cityName, state, now),
          entry \in EntriesFor(pl, fields[count], count - 1, cityName, state, now)}

\* the entries the callback can return for the listing at an index
EntriesOf(fields, index, now) == EntriesFor(pipeline, fields, index, city, stateName, now)

\* the arrays the callback can give for the first `count` listings
MappedUpTo(fields, count, now) == MappedFor(pipeline, fields, count, city, stateName, now)

\* the arrays propertyListings.map(...) can return
Mapped(listings, now) ==
  MappedUpTo([i \in 1..Len(listings) |-> ParseFields(pipeline, listings[i], city, stateName)],
             Len(listings), now)

\* the mapped array returned as it is
ReturnedUnfiltered(entries) == [i \in 1..Len(entries) |-> i]

\* the indices of the mapped array that are returned:
\* .filter(property => property !== null), which only load-properties-mcp.js applies
Returned(entries) ==
  LET indices == [i \in 1..Len(entries) |-> i]
  IN IF pipeline = "mcp" THEN SelectSeq(indices, LAMBDA i : ~IsNull(entries[i])) ELSE indices

\* page.evaluate: the callback runs on every listing, the clock never going back
Evaluate ==
  /\ pc = "evaluate"
  /\ \E elapsed \in 0..1 :
       \E entries \in Mapped(PropertyListings, clock + elapsed) :
         /\ clock' = clock + elapsed
         /\ origins' = Returned(entries)
         /\ properties' = [k \in 1..Len(origins') |-> entries[origins'[k]]]
  /\ outcome' = "collected"
  /\ pc' = "finally"
  /\ UNCHANGED << pipeline, city, stateName, fieldVars, maxProperties, page,
                  selectorResults, bestSelector, propertyCount,
                  serviceVars >>

\* finally { await page.close() } and the return
ClosePage ==
  /\ pc = "finally"
  /\ pc' = "done"
  /\ UNCHANGED << request, fieldVars, maxProperties, page, selectorResults, bestSelector,
                  propertyCount, properties, origins, outcome,
                  serviceVars >>

Next == Navigate \/ Locate \/ Evaluate \/ ClosePage

Spec == Init /\ [][Next]_vars

(***************************************************************************)
(* Two invocations of collectProperties together with the code that calls  *)
(* it: main of the two scripts, the handler of POST /properties/collect.   *)
(* A step is the code between two awaits.  RealtyDataService keeps the     *)
(* browser and the context in static fields, which the invocations of one  *)
(* process share; every run of a script has a collector of its own.        *)
(***************************************************************************)
maxRetries == 2

\* how many operations may fail in one behaviour
MaxFaults == 1

\* collectProperties(city, state, maxProperties = 20)
DefaultLimit == 20

Calls == {1, 2}

\* the two requests are for different cities
CallCity(c) == IF c = 1 THEN "Parma" ELSE "Akron"

CallState == "OH"

\* the pages: no listing; a listing with everything and one without image and link
ServicePages ==
  { << >>,
    << CompleteListing(<< Image("//cdn.site.com/a.jpg", ""), Anchor("/property/123", "") >>),
       CompleteListing(<< >>) >> }

\* propertyCount for the results of the selector loop
CountWith(results) == ResultOf(results, BestSelector(results))

\* propertyListings of page.evaluate for the results of the selector loop
ListingsWith(pl, elements, results) ==
  Slice(querySelectorAll(elements, BestSelector(results)),
        IF pl = "lambda" THEN LambdaLimit ELSE DefaultLimit)

\* the fields the callback of propertyListings.map parses from each listing
FieldsOn(pl, listings, cityName) ==
  [i \in 1..Len(listings) |-> ParseFields(pl, listings[i], cityName, CallState)]

\* propertyCount on each of the pages
ServiceCounts == {[elements |-> p, count |-> CountWith(TestSelectors(p))] : p \in ServicePages}

CountOn(elements) == (CHOOSE r \in ServiceCounts : r.elements = elements).count

\* Date.now() while the invocations run: a millisecond passes with each wait
ClockValues == 0..(2 * maxRetries)

\* the arrays propertyListings.map(...) can return for the parsed fields
MappedFrom(pl, fields, cityName, now) ==
  MappedFor(pl, fields, Len(fields), cityName, CallState, now)

\* the arrays page.evaluate can resolve with, for each pipeline, request, page and time
ServiceMapped ==
  {[pl |-> pl, call |-> c, now |-> now, elements |-> p,
    arrays |-> MappedFrom(pl, FieldsOn(pl, ListingsWith(pl, p, TestSelectors(p)), CallCity(c)),
                          CallCity(c), now)] :
     pl \in Pipelines, c \in Calls, p \in ServicePages, now \in ClockValues}

MappedOn(pl, c, elements, now) ==
  (CHOOSE r \in ServiceMapped :
     r.pl = pl /\ r.call = c /\ r.now = now /\ r.elements = elements).arrays

\* who owns the browser an invocation uses: the class, or the collector of the run
Owner(c) == IF pipeline = "lambda" THEN 0 ELSE c

Owners == {0} \cup Calls

NoPage == << >>

\* an invocation before its first step: the handler has the event to read, main of
\* a script calls collectProperties
NewCall(pl, elements) ==
  [pc |-> IF pl = "lambda" THEN "request" ELSE "start", city |-> Null, state |-> Null,
   attempt |-> 1, elements |-> elements, session |-> 0, page |-> NoPage,
   navAt |-> 0, navigations |-> 0, failed |-> 0, properties |-> << >>, error |-> FALSE,
   report |-> "pending"]

\* event.body is not JSON: JSON.parse throws
Unparsable == [unparsable |-> TRUE]

Body(cityName, state, location) == [city |-> cityName, state |-> state, location |-> location]

\* the bodies of the requests of an invocation, as JSON.parse reads them: city and
\* state, a location of two parts, a location of one part, none of them, a city and
\* a location without a state, and a body that is not JSON
Bodies(c) ==
  { Body(CallCity(c), CallState, Null),
    Body(Null, Null, CallCity(c) \o ", " \o CallState),
    Body(Null, Null, CallCity(c)),
    Body(Null, Null, Null),
    Body(CallCity(c), Null, CallCity(c) \o " " \o CallState),
    Unparsable }

\* `!x` of a text or of undefined
Not(x) == x = Null \/ x = ""

\* location.split(/[,\s]+/).filter(part => part.length > 0)
RECURSIVE LocationParts(_, _, _)
LocationParts(s, i, part) ==
  IF i > Len(s) THEN (IF part = "" THEN << >> ELSE << part >>)
  ELSE IF Ch(s, i) = "," \/ IsSpace(Ch(s, i))
       THEN (IF part = "" THEN << >> ELSE << part >>) \o LocationParts(s, i + 1, "")
       ELSE LocationParts(s, i + 1, part \o Ch(s, i))

\* parts.join(' ')
RECURSIVE JoinParts(_)
JoinParts(parts) ==
  IF Len(parts) = 0 THEN ""
  ELSE IF Len(parts) = 1 THEN parts[1]
       ELSE parts[1] \o " " \o JoinParts(Tail(parts))

\* `let { city, state, location } = body` and the handling of the location: the
\* city and the state the handler goes on with, or no request when the location
\* has fewer than two parts
CityAndState(body) ==
  IF ~Not(body.location) /\ Not(body.city) /\ Not(body.state)
  THEN LET locationParts == LocationParts(body.location, 1, "")
       IN IF Len(locationParts) >= 2
          THEN [city |-> JoinParts(SubSeq(locationParts, 1, Len(locationParts) - 1)),
                state |-> locationParts[Len(locationParts)], ok |-> TRUE]
          ELSE [city |-> body.city, state |-> body.state, ok |-> FALSE]
  ELSE [city |-> body.city, state |-> body.state,
        ok |-> ~(Not(body.city) \/ Not(body.state))]

ServiceInit ==
  /\ pipeline \in Pipelines
  /\ city = CallCity(1)
  /\ stateName = CallState
  /\ clock = 0
  /\ node = Listing("", "", "", << >>)
  /\ parsed = Pending
  /\ rec1 = Pending
  /\ rec2 = Pending
  /\ fpc = "idle"
  /\ CollectIdle
  /\ calls \in [Calls -> {NewCall(pipeline, p) : p \in ServicePages}]
  /\ browser = [o \in Owners |-> 0]
  /\ context = [o \in Owners |-> 0]
  /\ closed = {}
  /\ searchIndex = << >>
  /\ overwritten = {}
  /\ mcp = << >>

\* the page of the invocation is in a context that has been closed
PageClosed(c) == calls[c].page \in closed

\* a session no browser, context or page of the owner has had
FreshSession(o) ==
  1 + MaxOf({0, browser[o], context[o]} \cup {h[2] : h \in {x \in closed : x[1] = o}}
            \cup {calls[x].session : x \in Calls}
            \cup {calls[x].page[2] : x \in {y \in Calls : calls[y].page # NoPage}})

\* an error outside the try of the scripts: it leaves collectProperties; in
\* RealtyDataService it is inside the try of the attempt
ThrownOutsideTry(c) ==
  [calls EXCEPT ![c].pc = IF pipeline = "lambda" THEN "caught" ELSE "threw",
                ![c].error = TRUE]

\* the error without the finally block: the page stays open
ThrownInTryPageLeftOpen(c) ==
  [calls EXCEPT ![c].pc = IF pipeline = "lambda" THEN "caught" ELSE "returned",
                ![c].error = TRUE, ![c].properties = << >>]

\* an error of a page operation: `finally { await page.close() }`, then the scripts
\* `return []` from their catch and RealtyDataService throws the error on to the
\* catch of the attempt
ThrownInTry(c) ==
  [calls EXCEPT ![c].pc = IF pipeline = "lambda" THEN "caught" ELSE "returned",
                ![c].error = TRUE, ![c].properties = << >>, ![c].page = NoPage]

\* another operation may fail
MayFail == calls[1].failed + calls[2].failed < MaxFaults

\* one more operation of the invocation fails
OneMoreFault(next, c) == [next EXCEPT ![c].failed = calls[c].failed + 1]

\* context.newPage(), after `if (!context) throw` in RealtyDataService
WithNewPage(c) ==
  IF context[Owner(c)] = 0 \/ << Owner(c), context[Owner(c)] >> \in closed
  THEN ThrownOutsideTry(c)
  ELSE [calls EXCEPT ![c].pc = "goto", ![c].page = << Owner(c), context[Owner(c)] >>]

\* no request is turned away
ValidationOff(found) == TRUE

\* the city and the state are required
ValidationOn(found) == found.ok

\* POST /properties/collect up to the try: a body that is not JSON ends in the catch
\* of the handler with 500 'Internal server error', one without a city and a state
\* is answered 400, any other goes on to the search
Receive(c) ==
  /\ calls[c].pc = "request"
  /\ \E body \in Bodies(c) :
       IF body = Unparsable
       THEN calls' = [calls EXCEPT ![c].pc = "done", ![c].report = "handler error"]
       ELSE LET found == CityAndState(body)
            IN calls' = IF ValidationOn(found)
                        THEN [calls EXCEPT ![c].pc = "search", ![c].city = found.city,
                                           ![c].state = found.state]
                        ELSE [calls EXCEPT ![c].pc = "done", ![c].city = found.city,
                                           ![c].state = found.state,
                                           ![c].report = "bad request"]
  /\ UNCHANGED << request, fieldVars, collectVars, mcp, browser, context, closed, searchIndex,
                  overwritten >>

\* algoliaMCP.searchProperties(`${city} ${state}`) resolves: collectProperties is called
SearchExisting(c) ==
  /\ calls[c].pc = "search"
  /\ calls' = [calls EXCEPT ![c].pc = "start"]
  /\ UNCHANGED << request, fieldVars, collectVars, mcp, browser, context, closed, searchIndex,
                  overwritten >>

\* algoliaMCP.searchProperties rejects: HTTP 500 with success: false
SearchFails(c) ==
  /\ calls[c].pc = "search"
  /\ MayFail
  /\ calls' = OneMoreFault([calls EXCEPT ![c].pc = "done", ![c].report = "failure",
                                         ![c].error = TRUE], c)
  /\ UNCHANGED << request, fieldVars, collectVars, mcp, browser, context, closed, searchIndex,
                  overwritten >>

\* initialize / initializeBrowser: `if (!browser)` and chromium.launch is called,
\* else the page is asked for
Initialize(c) ==
  /\ calls[c].pc = "start"
  /\ calls' = IF browser[Owner(c)] = 0 THEN [calls EXCEPT ![c].pc = "launching"]
              ELSE WithNewPage(c)
  /\ UNCHANGED << request, fieldVars, collectVars, mcp, browser, context, closed, searchIndex,
                  overwritten >>

\* chromium.launch resolves, the browser is assigned and newContext is called on it
Launched(c) ==
  /\ calls[c].pc = "launching"
  /\ browser' = [browser EXCEPT ![Owner(c)] = FreshSession(Owner(c))]
  /\ calls' = [calls EXCEPT ![c].pc = "context", ![c].session = browser'[Owner(c)]]
  /\ UNCHANGED << request, fieldVars, collectVars, mcp, context, closed, searchIndex,
                  overwritten >>

\* chromium.launch rejects
LaunchFails(c) ==
  /\ calls[c].pc = "launching"
  /\ MayFail
  /\ calls' = OneMoreFault(ThrownOutsideTry(c), c)
  /\ UNCHANGED << request, fieldVars, collectVars, mcp, browser, context, closed, searchIndex,
                  overwritten >>

\* browser.newContext resolves and the context is assigned, or rejects because the
\* browser has been closed
NewContext(c) ==
  /\ calls[c].pc = "context"
  /\ IF << Owner(c), calls[c].session >> \in closed
     THEN calls' = ThrownOutsideTry(c) /\ context' = context
     ELSE /\ calls' = [calls EXCEPT ![c].pc = "newpage"]
          /\ context' = [context EXCEPT ![Owner(c)] = calls[c].session]
  /\ UNCHANGED << request, fieldVars, collectVars, mcp, browser, closed, searchIndex,
                  overwritten >>

\* browser.newContext rejects: the browser stays assigned, the context is not
NewContextFails(c) ==
  /\ calls[c].pc = "context"
  /\ << Owner(c), calls[c].session >> \notin closed
  /\ MayFail
  /\ calls' = OneMoreFault(ThrownOutsideTry(c), c)
  /\ UNCHANGED << request, fieldVars, collectVars, mcp, browser, context, closed, searchIndex,
                  overwritten >>

\* the page is asked for once the context is there
NewPage(c) ==
  /\ calls[c].pc = "newpage"
  /\ calls' = WithNewPage(c)
  /\ UNCHANGED << request, fieldVars, collectVars, mcp, browser, context, closed, searchIndex,
                  overwritten >>

\* page.goto resolves, or rejects because the page has been closed
Goto(c) ==
  /\ calls[c].pc = "goto"
  /\ calls' = [(IF PageClosed(c) THEN ThrownInTry(c)
                ELSE [calls EXCEPT ![c].pc = "locate", ![c].navAt = clock])
               EXCEPT ![c].navigations = calls[c].navigations + 1]
  /\ UNCHANGED << request, fieldVars, collectVars, mcp, browser, context, closed, searchIndex,
                  overwritten >>

\* page.goto rejects: the navigation times out
GotoFails(c) ==
  /\ calls[c].pc = "goto"
  /\ ~PageClosed(c)
  /\ MayFail
  /\ calls' = [OneMoreFault(ThrownInTry(c), c)
               EXCEPT ![c].navigations = calls[c].navigations + 1]
  /\ UNCHANGED << request, fieldVars, collectVars, mcp, browser, context, closed, searchIndex,
                  overwritten >>

\* page.waitForTimeout, the loop over propertySelectors, whose errors count as no
\* element, and the choice of the selector; when it counts no element `return []`
\* after `finally { await page.close() }`
LocateListings(c) ==
  /\ calls[c].pc = "locate"
  /\ clock' = IF clock > calls[c].navAt THEN clock ELSE calls[c].navAt + 1
  /\ calls' = IF PageClosed(c) \/ CountOn(calls[c].elements) = 0
              THEN [calls EXCEPT ![c].pc = "returned", ![c].page = NoPage]
              ELSE [calls EXCEPT ![c].pc = "evaluate"]
  /\ UNCHANGED << pipeline, city, stateName, fieldVars, collectVars, mcp, browser, context,
                  closed, searchIndex, overwritten >>

\* the entries at the given indices
EntriesAt(entries, indices) == [k \in 1..Len(indices) |-> entries[indices[k]]]

\* page.evaluate resolves with the array of the callback, which is returned after
\* `finally { await page.close() }`, or rejects because the page has been closed
EvaluatePage(c) ==
  /\ calls[c].pc = "evaluate"
  /\ \/ PageClosed(c) /\ calls' = ThrownInTry(c)
     \/ /\ ~PageClosed(c)
        /\ \E entries \in MappedOn(pipeline, c, calls[c].elements, clock) :
             calls' = [calls EXCEPT ![c].pc = "returned", ![c].page = NoPage,
                                    ![c].properties = EntriesAt(entries, Returned(entries))]
  /\ UNCHANGED << request, fieldVars, collectVars, mcp, browser, context, closed, searchIndex,
                  overwritten >>

\* page.evaluate rejects
EvaluateFails(c) ==
  /\ calls[c].pc = "evaluate"
  /\ ~PageClosed(c)
  /\ MayFail
  /\ calls' = OneMoreFault(ThrownInTry(c), c)
  /\ UNCHANGED << request, fieldVars, collectVars, mcp, browser, context, closed, searchIndex,
                  overwritten >>

\* the sessions closed once cleanup has run for the owner
ClosedAfterCleanup(o) ==
  closed \cup {<< o, g >> : g \in {browser[o], context[o]} \ {0}}

\* no attempt ever counts as the last
LastAttemptNever(attempt) == FALSE

\* `if (attempt === maxRetries)`
LastAttempt(attempt) == attempt = maxRetries

\* RealtyDataService, the catch of an attempt: `return []` after the last attempt,
\* else RealtyDataService.cleanup(), the pause and the next attempt
Retry(c) ==
  /\ calls[c].pc = "caught"
  /\ IF LastAttempt(calls[c].attempt)
     THEN /\ calls' = [calls EXCEPT ![c].pc = "returned", ![c].properties = << >>]
          /\ UNCHANGED << browser, context, closed >>
     ELSE /\ calls' = [calls EXCEPT ![c].pc = "start", ![c].error = FALSE,
                                    ![c].attempt = calls[c].attempt + 1]
          /\ closed' = ClosedAfterCleanup(Owner(c))
          /\ browser' = [browser EXCEPT ![Owner(c)] = 0]
          /\ context' = [context EXCEPT ![Owner(c)] = 0]
  /\ UNCHANGED << request, fieldVars, collectVars, mcp, searchIndex, overwritten >>

\* `finally { await collector.cleanup() }` of main; the handler leaves the browser
CallerCleanup(c) ==
  IF pipeline = "lambda" THEN UNCHANGED << browser, context, closed >>
  ELSE /\ closed' = ClosedAfterCleanup(Owner(c))
       /\ browser' = [browser EXCEPT ![Owner(c)] = 0]
       /\ context' = [context EXCEPT ![Owner(c)] = 0]

\* the records an indexing path sends to the index: indexProperties and
\* indexPropertiesViaMCP filter, AlgoliaMCPService.indexProperties sends them all
SentToIndex(props) ==
  IF pipeline = "lambda" THEN props
  ELSE SelectSeq(props, LAMBDA p : /\ ~IsNull(p)
                                    /\ trim(p.imageUrl) # ""
                                    /\ p.price # "" /\ p.price # PriceNotAvailable)

\* the objectID a record is saved under: property.id in AlgoliaMCPService
SavedUnder(record) == IF "id" \in DOMAIN record THEN record.id ELSE record.objectID

\* index.saveObjects(batch): a record replaces what the index holds under its objectID
IndexAfterSave(batch, c) ==
  [id \in DOMAIN searchIndex \cup {SavedUnder(batch[k]) : k \in 1..Len(batch)} |->
     IF \E k \in 1..Len(batch) : SavedUnder(batch[k]) = id
     THEN [record |-> batch[MaxOf({k \in 1..Len(batch) : SavedUnder(batch[k]) = id})],
           by |-> c]
     ELSE searchIndex[id]]

\* the objectIDs of the batch that replace a record another invocation saved
Replaced(batch, c) ==
  {id \in DOMAIN searchIndex :
     /\ searchIndex[id].by # c
     /\ \E k \in 1..Len(batch) : SavedUnder(batch[k]) = id}

\* the batch is saved
Save(batch, c) ==
  /\ searchIndex' = IndexAfterSave(batch, c)
  /\ overwritten' = overwritten \cup Replaced(batch, c)

\* the caller after collectProperties has returned: nothing collected is reported
\* as such (HTTP 200 with collected: 0, 'No properties found'), else the records are
\* indexed and the collection is reported
Respond(c) ==
  /\ calls[c].pc = "returned"
  /\ IF Len(calls[c].properties) = 0
     THEN /\ calls' = [calls EXCEPT ![c].pc = "done", ![c].report = "zero"]
          /\ UNCHANGED << searchIndex, overwritten >>
     ELSE /\ calls' = [calls EXCEPT ![c].pc = "done", ![c].report = "collected"]
          /\ Save(SentToIndex(calls[c].properties), c)
  /\ CallerCleanup(c)
  /\ UNCHANGED << request, fieldVars, collectVars, mcp >>

\* index.saveObjects rejects: HTTP 500, or exit code 1
SaveFails(c) ==
  /\ calls[c].pc = "returned"
  /\ Len(calls[c].properties) > 0
  /\ Len(SentToIndex(calls[c].properties)) > 0
  /\ MayFail
  /\ calls' = OneMoreFault([calls EXCEPT ![c].pc = "done", ![c].report = "failure",
                                         ![c].error = TRUE], c)
  /\ CallerCleanup(c)
  /\ UNCHANGED << request, fieldVars, collectVars, mcp, searchIndex, overwritten >>

\* collectProperties has thrown: main exits with code 1
RespondFailure(c) ==
  /\ calls[c].pc = "threw"
  /\ calls' = [calls EXCEPT ![c].pc = "done", ![c].report = "failure"]
  /\ CallerCleanup(c)
  /\ UNCHANGED << request, fieldVars, collectVars, mcp, searchIndex, overwritten >>

ServiceNext ==
  \E c \in Calls :
    \/ Receive(c)
    \/ SearchExisting(c)
    \/ SearchFails(c)
    \/ Initialize(c)
    \/ Launched(c)
    \/ LaunchFails(c)
    \/ NewContext(c)
    \/ NewContextFails(c)
    \/ NewPage(c)
    \/ Goto(c)
    \/ GotoFails(c)
    \/ LocateListings(c)
    \/ EvaluatePage(c)
    \/ EvaluateFails(c)
    \/ Retry(c)
    \/ Respond(c)
    \/ SaveFails(c)
    \/ RespondFailure(c)

ServiceSpec == ServiceInit /\ [][ServiceNext]_vars

\* every operation that is awaited settles: a step that can be taken is taken
ServiceFairSpec == ServiceSpec /\ WF_vars(ServiceNext)

(***************************************************************************)
(* indexPropertiesViaMCP of load-properties-mcp.js: the promise it returns *)
(* when records pass its filters, the child process that saves them and    *)
(* the timer.  The child is any process: it prints some text, in pieces,   *)
(* and ends with some exit code, or never ends.  A space stands for the    *)
(* line end of console.log.                                                *)
(***************************************************************************)
\* `setTimeout(..., 30000)`, in seconds
TimeoutSeconds == 30

\* the longest piece of text one 'data' event of stdout brings
ChunkLen == 9

SuccessText == "{\"success\":true} "

FailureText == "{\"success\":false} "

\* what the child may print on stdout: the result of the script, a result with
\* success: false, a text that is not JSON, nothing; what it prints on stderr is
\* only logged
ChildTexts == {SuccessText, FailureText, "Cannot find module ", ""}

\* `code` of the 'close' event when the child has been ended by a signal: null
SignalCode == 0 - 1

\* the exit codes of a child that ends by itself
ExitCodes == {0, 1}

Indexable == [objectID |-> "a", imageUrl |-> "https://cdn.site.com/a.jpg", price |-> "$325,000"]

WithoutImage == [objectID |-> "b", imageUrl |-> " ", price |-> "$250,000"]

\* the arrays indexPropertiesViaMCP is called with
McpBatches == {<< >>, << WithoutImage >>, << Indexable >>, << WithoutImage, Indexable >>}

\* JSON.parse(output.trim()) of the texts a child prints: the value, or a SyntaxError
ParseOutput(output) ==
  LET text == trim(output)
  IN IF text = trim(SuccessText) THEN [parsed |-> TRUE, success |-> TRUE]
     ELSE IF text = trim(FailureText) THEN [parsed |-> TRUE, success |-> FALSE]
          ELSE [parsed |-> FALSE, success |-> FALSE]

\* every exit code counts as a clean exit
ExitedWithAnyCode(code) == TRUE

\* `if (code === 0)`
ExitedCleanly(code) == code = 0

\* the 'close' handler: resolve(result) for exit code 0 and an output that parses
\* with a true `success`, reject for everything else
CloseOutcome(code, output) ==
  IF ExitedCleanly(code) /\ ParseOutput(output).parsed /\ ParseOutput(output).success
  THEN "resolved" ELSE "rejected"

\* resolve or reject of a promise: only the first call settles it
Settled(promise, how) == IF promise = "pending" THEN how ELSE promise

McpInit ==
  /\ pipeline = "mcp"
  /\ city = CallCity(1)
  /\ stateName = CallState
  /\ clock = 0
  /\ node = Listing("", "", "", << >>)
  /\ parsed = Pending
  /\ rec1 = Pending
  /\ rec2 = Pending
  /\ fpc = "idle"
  /\ CollectIdle
  /\ calls = << >>
  /\ browser = << >>
  /\ context = << >>
  /\ closed = {}
  /\ searchIndex = << >>
  /\ overwritten = {}
  /\ mcp \in {[pc |-> "called", batch |-> b, promise |-> "none", child |-> "none",
               toPrint |-> "", output |-> "", code |-> SignalCode, timer |-> "none",
               elapsed |-> 0] : b \in McpBatches}

mcpOnly == << request, fieldVars, collectVars, calls, browser, context, closed, searchIndex,
              overwritten >>

\* the call up to the return: without a record that passes the filters the function
\* returns undefined; else the child is spawned, the handlers are set, the timer is
\* started and the promise is returned
IndexPropertiesViaMCP ==
  /\ mcp.pc = "called"
  /\ IF Len(mcp.batch) = 0 \/ Len(SentToIndex(mcp.batch)) = 0
     THEN mcp' = [mcp EXCEPT !.pc = "returned"]
     ELSE \E text \in ChildTexts :
            mcp' = [mcp EXCEPT !.pc = "waiting", !.promise = "pending", !.child = "running",
                               !.toPrint = text, !.timer = "armed"]
  /\ UNCHANGED mcpOnly

\* child.stdout.on('data'): `output += data.toString()`
ChildPrints ==
  /\ mcp.pc = "waiting"
  /\ mcp.child \in {"running", "killed"}
  /\ mcp.toPrint # ""
  /\ LET n == IF Len(mcp.toPrint) < ChunkLen THEN Len(mcp.toPrint) ELSE ChunkLen
     IN mcp' = [mcp EXCEPT !.output = mcp.output \o SubSeq(mcp.toPrint, 1, n),
                           !.toPrint = SubSeq(mcp.toPrint, n + 1, Len(mcp.toPrint))]
  /\ UNCHANGED mcpOnly

\* child.on('close'): the child has ended, by itself or by the signal, with what it
\* had printed so far
ChildCloses ==
  /\ mcp.pc = "waiting"
  /\ mcp.child \in {"running", "killed"}
  /\ \E code \in (IF mcp.child = "killed" THEN {SignalCode} ELSE {}) \cup ExitCodes :
       mcp' = [mcp EXCEPT !.child = "closed", !.code = code, !.toPrint = "",
                          !.promise = Settled(mcp.promise, CloseOutcome(code, mcp.output))]
  /\ UNCHANGED mcpOnly

\* a second goes by while the timer runs
Tick ==
  /\ mcp.pc = "waiting"
  /\ mcp.timer = "armed"
  /\ mcp.elapsed < TimeoutSeconds
  /\ mcp' = [mcp EXCEPT !.elapsed = mcp.elapsed + 1]
  /\ UNCHANGED mcpOnly

\* the callback of setTimeout: child.kill('SIGTERM'), which does nothing to a child
\* that has ended, and reject
TimerFires ==
  /\ mcp.pc = "waiting"
  /\ mcp.timer = "armed"
  /\ mcp.elapsed >= TimeoutSeconds
  /\ mcp' = [mcp EXCEPT !.timer = "fired",
                        !.child = IF mcp.child = "running" THEN "killed" ELSE mcp.child,
                        !.promise = Settled(mcp.promise, "rejected")]
  /\ UNCHANGED mcpOnly

McpNext ==
  \/ IndexPropertiesViaMCP
  \/ ChildPrints
  \/ ChildCloses
  \/ Tick
  \/ TimerFires

McpSpec == McpInit /\ [][McpNext]_vars

\* the call runs up to its return and the event loop runs: time goes by and a timer
\* that is due fires; the child need not ever print or end
McpFairSpec ==
  McpSpec /\ WF_vars(IndexPropertiesViaMCP) /\ WF_vars(Tick) /\ WF_vars(TimerFires)

(***************************************************************************)
(* Properties of the parsers, under FieldSpec.                             *)
(***************************************************************************)
\* the listing has been through the parsers
Parsed == fpc # "raw" /\ fpc # "idle"

\* what parsePrice gives when it finds no price: null, or the placeholder of
\* RealtyDataService
PriceAbsent(price) == price \in {Null, PriceNotAvailable}

\* the value of a price text, its currency symbol, spaces and commas stripped
StrippedValue(price) == parseInt(Remove(price, {"$", ",", " "}))

\* the text the parser looks for a price in
CombinedText == parsed.priceText \o " " \o parsed.fullText

\* C2: whatever the text, the price the parser returns is absent or has a value
\* strictly between 10,000 and 10,000,000
C2_PriceNeverOutOfRange ==
  Parsed =>
    \/ PriceAbsent(parsed.price)
    \/ /\ StrippedValue(parsed.price) > MinPrice
       /\ StrippedValue(parsed.price) < MaxPrice

\* C2: the first two patterns match "$5,000", which is out of range, and the third
\* pattern gives the price
C2_FellThrough ==
  /\ Parsed
  /\ parsed.priceText = ""
  /\ startsWith(parsed.fullText, "$5,000")
  /\ parsed.price = "450,000$"

\* C3: in every pipeline, a listing whose price text and full text together contain a
\* no-price phrase gets no price
C3_NoPricePhraseMeansAbsent ==
  Parsed /\ HasInvalidPriceIndicator(CombinedText) => PriceAbsent(parsed.price)

\* C4: with no no-price phrase and no structured price text, a listing whose full text
\* contains "$325,000" gets the price "$325,000", whatever other amounts it contains,
\* and its record the price range "$200K - $400K"
C4_FirstInRangeMatch ==
  /\ Parsed /\ parsed.priceText = "" /\ ~HasInvalidPriceIndicator(CombinedText)
       /\ includes(parsed.fullText, "$325,000")
     => parsed.price = "$325,000"
  /\ fpc \in {"once", "twice"} /\ parsed.priceText = ""
       /\ ~HasInvalidPriceIndicator(CombinedText)
       /\ includes(parsed.fullText, "$325,000") /\ ~IsNull(rec1)
     => rec1.priceRange = "$200K - $400K"

\* the callback has returned a record for the listing
Emitted == fpc \in {"once", "twice"} /\ ~IsNull(rec1)

\* String.prototype.endsWith
EndsWith(s, suffix) ==
  Len(suffix) <= Len(s) /\ SubSeq(s, Len(s) - Len(suffix) + 1, Len(s)) = suffix

CityStateSuffix == ", " \o city \o ", " \o stateName

\* C8: every record has a non-empty address that includes ", <city>, <state>",
\* whichever way the address was obtained
C8_AddressHasCityState ==
  Emitted => rec1.address # "" /\ includes(rec1.address, CityStateSuffix)

\* C9 as claimed: every synthesized address ends with ", <city>, <state>", has a digit
\* and is 10 to 60 characters long
C9_SynthesizedWithin60 ==
  Emitted /\ parsed.fallback =>
    /\ EndsWith(rec1.address, CityStateSuffix)
    /\ HasDigit(rec1.address)
    /\ Len(rec1.address) >= 10
    /\ Len(rec1.address) <= 60

\* C9: every synthesized address ends with ", <city>, <state>", has a digit, and is
\* 12 to 19 characters longer than the city and the state together
C9_SynthesizedAddress ==
  Emitted /\ parsed.fallback =>
    /\ EndsWith(rec1.address, CityStateSuffix)
    /\ HasDigit(rec1.address)
    /\ Len(rec1.address) >= 12 + Len(city) + Len(stateName)
    /\ Len(rec1.address) <= 19 + Len(city) + Len(stateName)

\* C9: a synthesized address of a city with a long name is longer than 60 characters
C9_LongSynthesized ==
  Emitted /\ parsed.fallback /\ Len(rec1.address) > 60

\* the fields of a record two runs on the same listing need not agree on
RunFields == {"objectID", "id", "collectedAt"}

\* the two runs agree on the fields of the record other than `except`
SameRecords(except) ==
  /\ IsNull(rec1) = IsNull(rec2)
  /\ ~IsNull(rec1) =>
       /\ DOMAIN rec1 = DOMAIN rec2
       /\ \A field \in DOMAIN rec1 \ except : rec1[field] = rec2[field]

\* C10 as claimed: two runs of the finalization on the same fields give records equal
\* in every field but the object id and collectedAt, the address fallback included
C10_SameButIdAndTime == fpc = "twice" => SameRecords(RunFields)

\* C10: two runs of the finalization on the same fields give records equal in every
\* field but the object id, collectedAt, the timestamp of load-properties-mcp.js and,
\* when the address fallback is taken, the address
C10_SameButIdTimeAndSynthesized ==
  fpc = "twice" =>
    SameRecords(RunFields \cup {"timestamp"}
                  \cup (IF parsed.fallback THEN {"address"} ELSE {}))

\* C10: the fallback is taken and the two runs synthesize different addresses
C10_FallbackDiffers ==
  /\ fpc = "twice"
  /\ parsed.fallback
  /\ ~IsNull(rec1)
  /\ rec1.address # rec2.address
  /\ rec1.price = rec2.price

(***************************************************************************)
(* Properties of collectProperties, under Spec.                            *)
(***************************************************************************)
\* collectProperties has returned the array page.evaluate gave
Collected == pc = "done" /\ outcome = "collected"

\* the fields of the i-th listing the callback was applied to
ListingFields(i) == ParseFields(pipeline, PropertyListings[i], city, stateName)

\* the indices of the listings the returned entries are of
Kept == {origins[k] : k \in 1..Len(origins)}

\* C1 as claimed: in each pipeline, no record is of a listing the price parser finds
\* no price for
C1_PriceGateEverywhere ==
  Collected =>
    \A k \in 1..Len(properties) :
      ~IsNull(properties[k]) => ~PriceAbsent(ListingFields(origins[k]).price)

\* C1: a listing the price parser finds no price for has no record in the output of
\* load-properties.js (its entry is null) and of load-properties-mcp.js (it has no
\* entry); RealtyDataService gives it a record with the price "Price not available"
C1_PriceGate ==
  Collected =>
    \A i \in 1..Len(PropertyListings) :
      PriceAbsent(ListingFields(i).price) =>
        CASE pipeline = "load" -> i \in Kept /\ IsNull(properties[i])
          [] pipeline = "mcp" -> i \notin Kept
          [] pipeline = "lambda" ->
               i \in Kept /\ ~IsNull(properties[i]) /\ properties[i].price = PriceNotAvailable

\* C1: a listing with an address, an image and a link, but no price, is left out
C1_CompleteButRejected ==
  /\ Collected
  /\ pipeline = "mcp"
  /\ \E i \in 1..Len(PropertyListings) :
       /\ PriceAbsent(ListingFields(i).price)
       /\ ListingFields(i).addressText # ""
       /\ ListingFields(i).imageUrl # ""
       /\ ListingFields(i).propertyUrl # ""
       /\ i \notin Kept

\* C5: in every entry point and for every maxCount, the returned list has at most
\* maxCount entries
C5_AtMostMaxCount == pc = "done" => Len(properties) <= maxProperties

\* the entries are of different listings, in the order of the listings
InListingOrder ==
  /\ Len(origins) = Len(properties)
  /\ \A k \in 1..Len(origins) : origins[k] \in 1..Len(PropertyListings)
  /\ \A k \in 1..(Len(origins) - 1) : origins[k] < origins[k + 1]
  /\ \A k \in 1..Len(properties) :
       ~IsNull(properties[k]) =>
         /\ properties[k].price = ListingFields(origins[k]).price
         /\ properties[k].imageUrl = ListingFields(origins[k]).imageUrl

\* the callback returns null for the i-th listing
RejectedListing(i) ==
  IsNull(FinalizeRecord(pipeline, ListingFields(i), i - 1, city, stateName,
                        CHOOSE draw \in Draws(0) : TRUE))

\* C6 as claimed: the returned list holds records only, in the order of their listings
C6_OnlyRecordsInOrder ==
  Collected =>
    /\ \A k \in 1..Len(properties) : ~IsNull(properties[k])
    /\ InListingOrder

\* C6: the returned list is in the order of the listings and every listing that is
\* not rejected has its record in it; load-properties-mcp.js leaves the rejected
\* listings out, load-properties.js keeps a null entry in the place of each
C6_EntriesInOrder ==
  Collected =>
    /\ InListingOrder
    /\ \A i \in 1..Len(PropertyListings) : ~RejectedListing(i) => i \in Kept
    /\ pipeline = "mcp" => \A k \in 1..Len(properties) : ~IsNull(properties[k])
    /\ pipeline = "load" =>
         \A i \in 1..Len(PropertyListings) :
           i \in Kept /\ (IsNull(properties[i]) <=> RejectedListing(i))

\* C6: a rejected listing comes first and the listing after it has its record
C6_RejectedThenKept ==
  /\ Collected
  /\ Len(PropertyListings) >= 2
  /\ RejectedListing(1)
  /\ ~RejectedListing(2)
  /\ 2 \in Kept
  /\ ~IsNull(properties[Len(properties)])

\* C7: no listings are reported only when none of the nine selectors matches an
\* element; when one of them does, a selector is chosen and the extraction runs
C7_EmptyOnlyWhenNoCandidate ==
  outcome = "no-listings" =>
    \A k \in 1..Len(propertySelectors) : ResultOf(selectorResults, propertySelectors[k]) = 0

(***************************************************************************)
(* Properties of the record fields, under FieldSpec.                       *)
(***************************************************************************)
\* the href of the link of the listing node, "" when it has none
NodeHref ==
  LET links == {k \in 1..Len(node.kids) : node.kids[k].href # ""}
  IN IF links = {} THEN "" ELSE node.kids[MinOf(links)].href

\* the src of the image of the listing node, "" when it has none
NodeSrc ==
  LET images == {k \in 1..Len(node.kids) : node.kids[k].src # ""}
  IN IF images = {} THEN "" ELSE node.kids[MinOf(images)].src

\* the text names none of the non-listing intents
NamesNoDeniedPart(url) ==
  \A part \in {"mailto:", "tel:", "javascript:", "#", "agent", "contact"} :
    ~includes(url, part)

\* C13: in every pipeline the propertyUrl of an emitted record is empty, or absolute
\* and free of 'mailto:', 'tel:', 'javascript:', '#', 'agent' and 'contact'; the href
\* "mailto:agent@example.com" gives the empty propertyUrl
C13_PropertyUrlFiltered ==
  /\ Emitted =>
       \/ rec1.propertyUrl = ""
       \/ startsWith(rec1.propertyUrl, "http") /\ NamesNoDeniedPart(rec1.propertyUrl)
  /\ Parsed /\ NodeHref = "mailto:agent@example.com" => parsed.propertyUrl = ""

\* C14: the imageUrl of an emitted record is empty or absolute: '//host/p' becomes
\* 'https://host/p', '/p' gets the site origin in front, every other relative value
\* is made absolute as well, and absolute values and data: URIs stay as they are
C14_ImageUrlAbsolute ==
  Emitted =>
    /\ rec1.imageUrl = "" \/ startsWith(rec1.imageUrl, "http")
         \/ startsWith(rec1.imageUrl, "data:")
    /\ startsWith(NodeSrc, "//") => rec1.imageUrl = "https:" \o NodeSrc
    /\ startsWith(NodeSrc, "http") \/ startsWith(NodeSrc, "data:") => rec1.imageUrl = NodeSrc

\* the record is of one of the pipelines that fill in default values
DefaultsPipeline == pipeline \in {"load", "lambda"}

\* C19: every record of load-properties.js and RealtyDataService has beds an integer
\* in [1,10], baths in [1,10] and sqft an integer in [500,10000]; a listing whose
\* numbers are all out of range gets 3 beds, 2 baths and 1500 sqft
C19_DetailsWithinRange ==
  Emitted /\ DefaultsPipeline =>
    /\ rec1.beds \in 1..10
    /\ DecimalBetween(rec1.baths, 1, 10)
    /\ rec1.sqft \in 500..10000
    /\ includes(parsed.fullText, "15 beds 0.5 bath 120 sqft") =>
         rec1.beds = 3 /\ rec1.baths = "2" /\ rec1.sqft = 1500

\* C19: the first beds pattern matches "0 bed", which is out of range, and the third
\* pattern gives the beds; nothing gives baths or sqft and the defaults are used
C19_FellThroughToThirdPattern ==
  /\ Emitted /\ DefaultsPipeline
  /\ includes(parsed.fullText, "0 bed 3 b ")
  /\ rec1.beds = 3
  /\ rec1.baths = "2"
  /\ rec1.sqft = 1500

\* the bed count of the record as text
BedsText == IF pipeline = "mcp" THEN rec1.beds ELSE ToString(rec1.beds)

\* C20: the propertyType of a record is 'Condo/Apartment' exactly when its beds is 1,
\* 'Townhouse/Condo' exactly when it is 2, and 'Single Family Home' otherwise, 0 and
\* 'N/A' included
C20_TypeFromBedsAlone ==
  Emitted =>
    /\ rec1.propertyType = "Condo/Apartment" <=> BedsText = "1"
    /\ rec1.propertyType = "Townhouse/Condo" <=> BedsText = "2"
    /\ rec1.propertyType = "Single Family Home" <=> BedsText \notin {"1", "2"}

\* C20: a record with one bed is a condo or apartment
C20_OneBedCondo ==
  /\ Emitted
  /\ BedsText = "1"
  /\ rec1.propertyType = "Condo/Apartment"

(***************************************************************************)
(* Properties of the identifiers, under Spec.                              *)
(***************************************************************************)
\* the identifier of a record: objectID, or id in RealtyDataService
IdOf(record) == IF "id" \in DOMAIN record THEN record.id ELSE record.objectID

\* C11: no two records that one collectProperties call returns have the same
\* identifier, in each pipeline, also when the clock stands still during the batch
C11_DistinctIdsInBatch ==
  Collected =>
    \A k, l \in 1..Len(properties) :
      k # l /\ ~IsNull(properties[k]) /\ ~IsNull(properties[l]) =>
        IdOf(properties[k]) # IdOf(properties[l])

(***************************************************************************)
(* Properties of two invocations, under ServiceSpec.                       *)
(***************************************************************************)
\* C12: the records of two different collectProperties calls never share an objectId,
\* so saving one batch never replaces a record another batch has saved
C12_NoRecordOverwritten == overwritten = {}

\* the invocation is over and its last attempt at the page ended with an error
FailedAtPage(c) == calls[c].pc = "done" /\ calls[c].error

\* C15: a failure of the launch, of the navigation or of the evaluation is reported as
\* a failure, never as a page on which no listing was found
C15_FailureSurfaced == \A c \in Calls : FailedAtPage(c) => calls[c].report = "failure"

\* C16 as claimed: one collectProperties call navigates to the page at most once
C16_SingleAttempt == \A c \in Calls : calls[c].navigations <= 1

\* C16: one collectProperties call of load-properties.js and of load-properties-mcp.js
\* makes one attempt at the page; one call of RealtyDataService makes at most
\* maxRetries = 2 attempts
C16_AttemptsBounded ==
  \A c \in Calls :
    /\ calls[c].attempt <= (IF pipeline = "lambda" THEN maxRetries ELSE 1)
    /\ calls[c].navigations <= calls[c].attempt

\* C16: a call of RealtyDataService whose first navigation failed has navigated again
\* and collected the records of the page
C16_SecondAttemptCollected ==
  \E c \in Calls :
    /\ pipeline = "lambda"
    /\ calls[c].failed = 1
    /\ calls[c].navigations = maxRetries
    /\ calls[c].report = "collected"

\* C17: no invocation ever has its page closed by another, and an invocation none of
\* whose operations failed ends without an error
C17_InvocationsIsolated ==
  \A c \in Calls :
    /\ calls[c].page # NoPage => ~PageClosed(c)
    /\ calls[c].failed = 0 => ~calls[c].error

\* C18: every record in the search index has an image and a price within the range
C18_OnlyCompleteIndexed ==
  \A id \in DOMAIN searchIndex :
    /\ searchIndex[id].record.imageUrl # ""
    /\ searchIndex[id].record.price # PriceNotAvailable
    /\ PriceInRange(searchIndex[id].record.price)

(***************************************************************************)
(* Properties of the derived fields and of the address parser, under       *)
(* FieldSpec.                                                              *)
(***************************************************************************)
\* the range of a price by the table of the price ranges; a text that is no amount
\* has none
RangeOfValue(value) ==
  IF value = NaN THEN "none"
  ELSE IF value < 200000 THEN "Under $200K"
  ELSE IF value < 400000 THEN "$200K - $400K"
  ELSE IF value < 600000 THEN "$400K - $600K"
  ELSE "Over $600K"

\* C21 as claimed: the priceRange of every record is the range of the value of the
\* record's price
C21_RangeOfOwnPrice ==
  Emitted => rec1.priceRange = RangeOfValue(StrippedValue(rec1.price))

\* C21: the priceRange of a record is the range of the value of its price: under
\* 200,000, from 200,000, from 400,000, from 600,000; a record of RealtyDataService
\* with the price "Price not available" has the range "$200K - $400K"
C21_RangeOfPriceOrPlaceholder ==
  Emitted =>
    IF rec1.price = PriceNotAvailable
    THEN pipeline = "lambda" /\ rec1.priceRange = "$200K - $400K"
    ELSE rec1.priceRange = RangeOfValue(StrippedValue(rec1.price))

\* C21: a record with the price $200,000 is in the range that starts there
C21_AtLowerLimit ==
  Emitted /\ rec1.price = "$200,000" /\ rec1.priceRange = "$200K - $400K"

\* C26: no record has the priceRange "Unknown": a record of load-properties.js and of
\* load-properties-mcp.js has a price above 10,000, and a record of RealtyDataService
\* with the price "Price not available" has the range "$200K - $400K"
C26_RangeNeverUnknown ==
  Emitted =>
    /\ rec1.priceRange # "Unknown"
    /\ pipeline # "lambda" => StrippedValue(rec1.price) > MinPrice
    /\ rec1.price = PriceNotAvailable => rec1.priceRange = "$200K - $400K"

\* C26: RealtyDataService has emitted a record for a listing that asks to call for the
\* price
C26_PlaceholderBucketed ==
  /\ Emitted
  /\ pipeline = "lambda"
  /\ includes(parsed.fullText, "Call for Price")
  /\ rec1.price = PriceNotAvailable
  /\ rec1.priceRange = "$200K - $400K"

(***************************************************************************)
(* Properties of the choice of the selector, under Spec.                   *)
(***************************************************************************)
\* the selector loop and the choice of the selector have run
Located == pc \in {"evaluate", "finally", "done"}

\* the fallback selectors that have a count
WorkingFallbacks ==
  {k \in 1..Len(fallbackSelectors) : ResultOf(selectorResults, fallbackSelectors[k]) > 0}

\* C22: '.listing-card' is chosen whenever it has a count; otherwise the first fallback
\* selector, in the order of the fallback list, that has a count; every fallback
\* selector is a candidate; and the selector the extraction goes on with has a count
C22_SelectorChoice ==
  Located =>
    /\ ResultOf(selectorResults, PrimarySelector) > 0 => bestSelector = PrimarySelector
    /\ ResultOf(selectorResults, PrimarySelector) = 0 /\ WorkingFallbacks # {} =>
         \E k \in WorkingFallbacks :
           /\ bestSelector = fallbackSelectors[k]
           /\ \A j \in 1..(k - 1) : j \notin WorkingFallbacks
    /\ \A k \in 1..Len(fallbackSelectors) :
         \E j \in 1..Len(propertySelectors) : propertySelectors[j] = fallbackSelectors[k]
    /\ outcome # "no-listings" =>
         /\ ResultOf(selectorResults, bestSelector) > 0
         /\ propertyCount = ResultOf(selectorResults, bestSelector)

\* C22: nothing matches '.listing-card', '[class*="listing"]' comes first among the
\* candidates that match, and '[class*="card"]', first in the fallback list, is chosen
C22_FallbackOrderDecides ==
  /\ Located
  /\ ResultOf(selectorResults, PrimarySelector) = 0
  /\ ResultOf(selectorResults, "[class*=\"listing\"]") > 0
  /\ bestSelector = "[class*=\"card\"]"

(***************************************************************************)
(* Properties of the selector cascade, under FieldSpec.                    *)
(***************************************************************************)
\* the trimmed text of the earliest selector of the cascade whose first matching
\* descendant has a text, "" when there is none
CascadeText(listing, selectors) ==
  LET texts == [n \in 1..Len(selectors) |-> SelectedText(listing, selectors, n)]
      yielding == {n \in 1..Len(selectors) : texts[n] # ""}
  IN IF yielding = {} THEN "" ELSE texts[MinOf(yielding)]

\* C23: in every pipeline the text extracted for the price and for the address is the
\* trimmed text of the earliest selector of the cascade whose first matching
\* descendant has one, and "" when none has
C23_EarliestNonEmptyText ==
  Parsed =>
    /\ parsed.priceText = CascadeText(node, priceSelectors)
    /\ parsed.addressText = CascadeText(node, addressSelectors)

(***************************************************************************)
(* Properties of the address parser, under FieldSpec.                      *)
(***************************************************************************)
\* the street part of an address the parser has returned
StreetSpan(address) == SubSeq(address, 1, Len(address) - Len(CityStateSuffix))

\* in the lower-cased text the span is followed by white space and the city
SpanThenCity(lw, span, lowerCity) ==
  \E i \in 1..Len(lw) :
    /\ StartsAt(lw, i, span)
    /\ \E j \in (i + Len(span) + 1)..Len(lw) :
         /\ \A k \in (i + Len(span))..(j - 1) : IsSpace(Ch(lw, k))
         /\ StartsAt(lw, j, lowerCity)

\* C24: in every pipeline the address the patterns give is of a span that the city of
\* the request follows in the text of the listing
C24_SpanFollowedByTargetCity ==
  Parsed /\ parsed.extractedAddress # "" =>
    SpanThenCity(toLowerCase(parsed.fullText),
                 toLowerCase(StreetSpan(parsed.extractedAddress)), toLowerCase(city))

\* the span qualifies: its length is within the limits and it has a digit
Qualifies(span, least, most) ==
  span # "" /\ Len(span) >= least /\ Len(span) <= most /\ HasDigit(span)

\* the first of the three captures that qualifies, "" when none does
FirstQualifying(c1, c2, c3, least, most) ==
  IF Qualifies(c1, least, most) THEN c1
  ELSE IF Qualifies(c2, least, most) THEN c2
  ELSE IF Qualifies(c3, least, most) THEN c3
  ELSE ""

\* '<span>, <city>, <state>', and no address without a span
AddressOfSpan(span) == IF span = "" THEN "" ELSE span \o CityStateSuffix

\* the address of the first of the captures of the three patterns that qualifies
AddressWithin(least, most) ==
  AddressOfSpan(FirstQualifying(AddressCapture(1, parsed.fullText, city, pipeline = "lambda"),
                                AddressCapture(2, parsed.fullText, city, pipeline = "lambda"),
                                AddressCapture(3, parsed.fullText, city, pipeline = "lambda"),
                                least, most))

\* the parsers have just returned; the finalization leaves their results as they are
JustParsed == fpc = "parsed"

\* C25 as claimed: the parser returns the first capture of 5 to 50 characters, bounds
\* included, that has a digit
C25_AcceptsFrom5To50 == JustParsed => parsed.extractedAddress = AddressWithin(5, 50)

\* C25: the parser tries its three patterns in order and returns '<span>, <city>,
\* <state>' for the first capture of 6 to 49 characters that has a digit, and nothing
\* when none qualifies
C25_AcceptsFrom6To49 == JustParsed => parsed.extractedAddress = AddressWithin(6, 49)

\* C25: the first pattern finds no street suffix and the second gives the address
C25_SecondPatternAccepted ==
  /\ Parsed
  /\ includes(parsed.fullText, "77 Sunset Strip Parma")
  /\ parsed.extractedAddress = "77 Sunset Strip" \o CityStateSuffix

(***************************************************************************)
(* Properties of the attempts of RealtyDataService, under ServiceFairSpec. *)
(***************************************************************************)
\* the invocation holds a page only between newPage and the end of the try
HoldsPageOnlyInTry(c) ==
  calls[c].page # NoPage => calls[c].pc \in {"goto", "locate", "evaluate"}

\* the invocation is at most at its last attempt, its pages are closed, it has not
\* thrown, and what it returns after a failed last attempt is the empty list
AttemptInOrder(c) ==
  /\ calls[c].attempt <= maxRetries
  /\ HoldsPageOnlyInTry(c)
  /\ calls[c].pc # "threw"
  /\ calls[c].pc = "returned" /\ calls[c].error =>
       calls[c].attempt = maxRetries /\ calls[c].properties = << >>

\* a step that closes the browser is the catch of a failed attempt that is not the last
ResetOnlyBeforeRetry ==
  closed' # closed =>
    \E c \in Calls :
      /\ calls[c].pc = "caught"
      /\ calls[c].attempt < maxRetries
      /\ calls'[c].attempt = calls[c].attempt + 1

OutsideInitialize(o) ==
  \A c \in Calls : Owner(c) = o => calls[c].pc \notin {"launching", "context"}

\* C28: between the calls of initialize, collectProperties and cleanup, failed ones
\* included, an owner that has a browser has a context as well, so that an
\* initialize that finds the browser set leaves a context to use
C28_BrowserHasContext ==
  \A o \in Owners : OutsideInitialize(o) /\ browser[o] # 0 => context[o] # 0

(***************************************************************************)
(* POST /properties/collect, under ServiceSpec.                            *)
(***************************************************************************)
\* the handler has no city or no state to go on with
WithoutCityAndState(c) == Not(calls[c].city) \/ Not(calls[c].state)

\* the request has led to no search and no collection
NothingStarted(c) ==
  /\ calls[c].pc \in {"request", "done"}
  /\ calls[c].navigations = 0
  /\ calls[c].session = 0
  /\ calls[c].failed = 0

\* a step that writes the index is the answer to a collection of at least one record
WrittenAfterCollection ==
  searchIndex' # searchIndex =>
    \E c \in Calls :
      /\ calls[c].pc = "returned"
      /\ Len(calls[c].properties) >= 1
      /\ calls'[c].report = "collected"

\* the answer to a collection of no record is 200 with collected: 0, and the index
\* is left as it is
ZeroAnswered ==
  \A c \in Calls :
    calls[c].pc = "returned" /\ Len(calls[c].properties) = 0 /\ calls'[c].pc = "done" =>
      calls'[c].report = "zero" /\ searchIndex' = searchIndex

\* the search for the existing records or the write of the index fails: 500 with
\* success: false
FailureAnswered ==
  \A c \in Calls :
    calls[c].pc \in {"search", "returned"} /\ calls'[c].failed > calls[c].failed =>
      calls'[c].pc = "done" /\ calls'[c].report = "failure" /\ searchIndex' = searchIndex

\* the steps of the handler answer as the claim says
HandlerSteps == WrittenAfterCollection /\ ZeroAnswered /\ FailureAnswered

SomeRecordPasses == Len(SentToIndex(mcp.batch)) >= 1

IsSettled(promise) == promise \in {"resolved", "rejected"}

\* the step is the 'close' event of the child
CloseEvent == mcp.child # "closed" /\ mcp'.child = "closed"

\* the step is the callback of the timer
TimerEvent == mcp.timer = "armed" /\ mcp'.timer = "fired"

\* the promise is resolved by the 'close' event of a child that has exit code 0 and
\* has printed the result with success: true, while the timer has not fired
ResolvedOnlyOnSuccess ==
  mcp.promise = "pending" /\ mcp'.promise = "resolved" =>
    /\ CloseEvent
    /\ mcp'.code = 0
    /\ mcp'.output = SuccessText
    /\ mcp'.timer = "armed"

\* a pending promise is rejected by any other 'close' event and by the timer, and
\* the timer kills a child that runs
RejectedOtherwise ==
  /\ mcp.promise = "pending" /\ CloseEvent /\ (mcp'.code # 0 \/ mcp'.output # SuccessText) =>
       mcp'.promise = "rejected"
  /\ mcp.promise = "pending" /\ TimerEvent => mcp'.promise = "rejected"
  /\ TimerEvent /\ mcp.child = "running" => mcp'.child = "killed"

\* no event changes a promise that has been settled
SettledOnce == IsSettled(mcp.promise) => mcp'.promise = mcp.promise

====
